---- MODULE Spec2Model ----
(***************************************************************************)
(* Notion -> Telegram relay (KogaCyber/Notion-INT).                        *)
(*                                                                         *)
(* The model follows src/webhook_server_fixed_properties.py (the FastAPI   *)
(* receiver, WebhookProcessor, the Telegram handlers),                     *)
(* src/notion_integration.py (NotionIntegration) and                       *)
(* src/telegram_client.py (TelegramIntegration).                           *)
(*                                                                         *)
(* Text is a sequence of symbols.  A symbol is a one-character string, a   *)
(* placeholder for one non-ASCII character ("U+00E9", "U+20AC") or one of  *)
(* the literal markers the formatter writes (StatusMark, TitleMark, ...).  *)
(* Python's None is the reserved text None.                                *)
(***************************************************************************)
EXTENDS Integers, Sequences, FiniteSets, TLC

(***************************************************************************)
(* Bounds of the model.                                                    *)
(***************************************************************************)
MaxNameLen == 21      \* longest run of fill characters in a generated status name
MaxOptions == 3       \* most status options of a database schema
MaxDeliveries == 3    \* requests that reach the server in one run of the event loop

(***************************************************************************)
(* Text helpers.                                                           *)
(***************************************************************************)
None == <<"<None>">>
NL == "\n"

\* the value of a key that a dict does not hold
Missing == <<"<missing>">>

Truthy(s) == s # None /\ s # <<>>

\* the characters U+0000 .. U+00FF in the order of their code points: a printable
\* ASCII character is itself (the grave accent, which a string cannot hold, is
\* U+0060), any other one is written by its code point
Latin1 ==
    <<
      "U+0000", "U+0001", "U+0002", "U+0003", "U+0004", "U+0005", "U+0006", "U+0007",
      "U+0008", "\t", NL, "U+000B", "\f", "\r", "U+000E", "U+000F",
      "U+0010", "U+0011", "U+0012", "U+0013", "U+0014", "U+0015", "U+0016", "U+0017",
      "U+0018", "U+0019", "U+001A", "U+001B", "U+001C", "U+001D", "U+001E", "U+001F",
      " ", "!", "\"", "#", "$", "%", "&", "'",
      "(", ")", "*", "+", ",", "-", ".", "/",
      "0", "1", "2", "3", "4", "5", "6", "7",
      "8", "9", ":", ";", "<", "=", ">", "?",
      "@", "A", "B", "C", "D", "E", "F", "G",
      "H", "I", "J", "K", "L", "M", "N", "O",
      "P", "Q", "R", "S", "T", "U", "V", "W",
      "X", "Y", "Z", "[", "\\", "]", "^", "_",
      "U+0060", "a", "b", "c", "d", "e", "f", "g",
      "h", "i", "j", "k", "l", "m", "n", "o",
      "p", "q", "r", "s", "t", "u", "v", "w",
      "x", "y", "z", "{", "|", "}", "~", "U+007F",
      "U+0080", "U+0081", "U+0082", "U+0083", "U+0084", "U+0085", "U+0086", "U+0087",
      "U+0088", "U+0089", "U+008A", "U+008B", "U+008C", "U+008D", "U+008E", "U+008F",
      "U+0090", "U+0091", "U+0092", "U+0093", "U+0094", "U+0095", "U+0096", "U+0097",
      "U+0098", "U+0099", "U+009A", "U+009B", "U+009C", "U+009D", "U+009E", "U+009F",
      "U+00A0", "U+00A1", "U+00A2", "U+00A3", "U+00A4", "U+00A5", "U+00A6", "U+00A7",
      "U+00A8", "U+00A9", "U+00AA", "U+00AB", "U+00AC", "U+00AD", "U+00AE", "U+00AF",
      "U+00B0", "U+00B1", "U+00B2", "U+00B3", "U+00B4", "U+00B5", "U+00B6", "U+00B7",
      "U+00B8", "U+00B9", "U+00BA", "U+00BB", "U+00BC", "U+00BD", "U+00BE", "U+00BF",
      "U+00C0", "U+00C1", "U+00C2", "U+00C3", "U+00C4", "U+00C5", "U+00C6", "U+00C7",
      "U+00C8", "U+00C9", "U+00CA", "U+00CB", "U+00CC", "U+00CD", "U+00CE", "U+00CF",
      "U+00D0", "U+00D1", "U+00D2", "U+00D3", "U+00D4", "U+00D5", "U+00D6", "U+00D7",
      "U+00D8", "U+00D9", "U+00DA", "U+00DB", "U+00DC", "U+00DD", "U+00DE", "U+00DF",
      "U+00E0", "U+00E1", "U+00E2", "U+00E3", "U+00E4", "U+00E5", "U+00E6", "U+00E7",
      "U+00E8", "U+00E9", "U+00EA", "U+00EB", "U+00EC", "U+00ED", "U+00EE", "U+00EF",
      "U+00F0", "U+00F1", "U+00F2", "U+00F3", "U+00F4", "U+00F5", "U+00F6", "U+00F7",
      "U+00F8", "U+00F9", "U+00FA", "U+00FB", "U+00FC", "U+00FD", "U+00FE", "U+00FF"
    >>

\* chr(n) for n in 0..255
Chr(n) == Latin1[n + 1]

\* ord(c) of a character of Latin1
Ord(c) == CHOOSE n \in 0..255 : Latin1[n + 1] = c

\* the characters of the model outside Latin1: two Cyrillic letters, the euro
\* sign and the white space beyond U+00FF
WideSpace ==
    {"U+1680", "U+2000", "U+2001", "U+2002", "U+2003", "U+2004", "U+2005", "U+2006",
     "U+2007", "U+2008", "U+2009", "U+200A", "U+2028", "U+2029", "U+202F", "U+205F",
     "U+3000"}

TwoByteChars == { Chr(n) : n \in 128..255 } \cup {"U+0416", "U+0436"}
ThreeByteChars == {"U+20AC"} \cup WideSpace

\* len(c.encode('utf-8')) of one character
Utf8Len(c) == IF c \in TwoByteChars THEN 2 ELSE IF c \in ThreeByteChars THEN 3 ELSE 1

RECURSIVE ByteLen(_)
\* len(s.encode('utf-8'))
ByteLen(s) == IF s = <<>> THEN 0 ELSE Utf8Len(Head(s)) + ByteLen(Tail(s))

\* the code points of the upper-case letters of Latin1: A-Z, and U+00C0 .. U+00DE
\* without the multiplication sign U+00D7
UpperCodes == (65..90) \cup ((192..222) \ {215})

\* str.lower() of each upper-case letter of the model: the letter 32 code points
\* on in Latin1, and U+0436 for the Cyrillic U+0416
LowerOf ==
    [c \in { Chr(n) : n \in UpperCodes } \cup {"U+0416"} |->
        IF c = "U+0416" THEN "U+0436" ELSE Chr(Ord(c) + 32)]

\* str.lower() of one character
LowerChar(c) == IF c \in DOMAIN LowerOf THEN LowerOf[c] ELSE c

\* str.lower()
Lower(s) == [i \in 1..Len(s) |-> LowerChar(s[i])]

\* the characters str.isspace() holds for: tab, line feed, vertical tab, form
\* feed, carriage return, U+001C .. U+001F, the blank, U+0085, U+00A0 and the
\* white space beyond U+00FF
Whitespace ==
    {"\t", NL, "U+000B", "\f", "\r", "U+001C", "U+001D", "U+001E", "U+001F", " ",
     "U+0085", "U+00A0"} \cup WideSpace

RECURSIVE LStrip(_)
\* s.lstrip()
LStrip(s) == IF s # <<>> /\ Head(s) \in Whitespace THEN LStrip(Tail(s)) ELSE s

RECURSIVE RStrip(_)
\* s.rstrip()
RStrip(s) ==
    IF s # <<>> /\ s[Len(s)] \in Whitespace THEN RStrip(SubSeq(s, 1, Len(s) - 1)) ELSE s

\* s.strip()
Strip(s) == RStrip(LStrip(s))

\* s[:n], n may be negative as in Python
SliceTo(s, n) ==
    LET k == IF n >= 0 THEN (IF n < Len(s) THEN n ELSE Len(s))
             ELSE (IF Len(s) + n > 0 THEN Len(s) + n ELSE 0)
    IN  SubSeq(s, 1, k)

\* s.startswith(p)
StartsWith(s, p) == Len(s) >= Len(p) /\ SubSeq(s, 1, Len(p)) = p

\* index of the first occurrence of c in s, 0 when there is none
RECURSIVE IndexFrom(_, _, _)
IndexFrom(s, c, i) ==
    IF i > Len(s) THEN 0 ELSE IF s[i] = c THEN i ELSE IndexFrom(s, c, i + 1)

RECURSIVE Split(_, _, _)
\* s.split(sep, maxsplit) for a one-character separator
Split(s, sep, maxsplit) ==
    LET i == IndexFrom(s, sep, 1)
    IN  IF maxsplit = 0 \/ i = 0 THEN <<s>>
        ELSE <<SubSeq(s, 1, i - 1)>> \o Split(SubSeq(s, i + 1, Len(s)), sep, maxsplit - 1)

Rep(c, n) == [i \in 1..n |-> c]

(***************************************************************************)
(* The button identifier (callback_data).                                  *)
(***************************************************************************)
StatusPrefix == <<"s", "t", "a", "t", "u", "s", ":">>
CallbackLimit == 64

\* f"status:{page_id}:{status}"
FullCallback(page_id, status) == StatusPrefix \o page_id \o <<":">> \o status

\* callback1 / callback2 of _process_page_event
CallbackData(page_id, status) ==
    IF ByteLen(FullCallback(page_id, status)) > CallbackLimit
    THEN FullCallback(page_id,
             SliceTo(status, CallbackLimit - ByteLen(StatusPrefix \o page_id \o <<":">>)))
    ELSE FullCallback(page_id, status)

\* a split without the maxsplit limit
SplitCallback_Unlimited(data) == Split(data, ":", Len(data))

\* a split that keeps the first three of all the parts
SplitCallback_DropsTail(data) ==
    LET parts == Split(data, ":", Len(data))
    IN  IF Len(parts) > 3 THEN SubSeq(parts, 1, 3) ELSE parts

\* parts = data.split(':', 2)
SplitCallback(data) == Split(data, ":", 2)

\* handle_callback: the decoding of query.data
DecodeCallback(data) ==
    IF ~StartsWith(data, StatusPrefix)
    THEN [kind |-> "unknown", page_id |-> None, status_name |-> None]
    ELSE LET parts == SplitCallback(data)
         IN  IF Len(parts) = 3
             THEN [kind |-> "status", page_id |-> parts[2], status_name |-> parts[3]]
             ELSE [kind |-> "badformat", page_id |-> None, status_name |-> None]

(***************************************************************************)
(* Field extraction (WebhookProcessor._extract_*, extract_all_fields).     *)
(*                                                                         *)
(* A page, as pages.retrieve returns it, is a record                       *)
(*   id          the page id                                               *)
(*   title       the title property's rich-text array (plain_text of each *)
(*               segment)                                                  *)
(*   statusProp  the name of the page's status-typed property, NoProp when *)
(*               it has none                                               *)
(*   status      the name of the current status option, None when unset    *)
(*   parentType  "database_id", "page_id" or "workspace"                   *)
(*   description the plain text of the rich_text property "Description"    *)
(*   executor    the name of the first person of "Executor", <<>> if none  *)
(*   url         the page's url                                            *)
(* A database is a record with the option names of its status property.    *)
(***************************************************************************)
NoProp == "<none>"
NoTitle == <<"N", "o", " ", "T", "i", "t", "l", "e">>

\* WebhookProcessor._extract_title: the first segment of the title array
_extract_title(page) == IF page.title # <<>> THEN page.title[1] ELSE NoTitle

\* WebhookProcessor._extract_status(properties, 'Status')
_extract_status(page) ==
    IF page.statusProp = "Status" /\ page.status # None THEN page.status ELSE <<>>

\* the hierarchy record of get_hierarchy_components when no database id is given
NoHierarchy == [department |-> <<>>, project |-> <<>>, tasks |-> <<>>]

\* get_database_name / get_hierarchy_components for a database at the top of the
\* workspace: nameOk says whether databases.retrieve answered get_database_name
get_hierarchy_components(database_id, db, nameOk) ==
    IF ~Truthy(database_id) THEN NoHierarchy
    ELSE [NoHierarchy EXCEPT !.tasks = IF nameOk /\ db.title # <<>> THEN db.title[1]
                                        ELSE <<"Unknown Database">>]

\* a people array whose first entry is null: _extract_people raises on it
\* (people_array[0].get), while _parse_page, which reads the title, 'Status'
\* and 'Tags' only, accepts the page
Unreadable == <<"<unreadable>">>

\* the empty dictionary extract_all_fields returns from its except branch, as
\* data.get(key) reads it: None for every key
NoFields ==
    [title |-> None, department |-> None, project |-> None, tasks |-> None,
     description |-> None, status |-> None, executor |-> None, assigned_by |-> None,
     deadline |-> None, telegram_username |-> None, url |-> None]

\* extract_all_fields: the fields the formatter reads; any exception of an
\* extractor gives {}
extract_all_fields(page, hierarchy) ==
    IF page.executor = Unreadable THEN NoFields
    ELSE
    [title |-> _extract_title(page),
     department |-> hierarchy.department,
     project |-> hierarchy.project,
     tasks |-> hierarchy.tasks,
     description |-> page.description,
     status |-> _extract_status(page),
     executor |-> page.executor,
     assigned_by |-> <<>>,
     deadline |-> <<>>,
     telegram_username |-> <<>>,
     url |-> page.url]

(***************************************************************************)
(* Formatting (WebhookProcessor.format_enhanced_telegram_message).         *)
(* The emoji of each marker is written as a name in parentheses.           *)
(***************************************************************************)
EventCreated == "(bell) <b>NEW TASK</b>"
EventPropsUpdated == "(bell) <b>TASK UPDATE</b>"
EventOther == "(bell) <b>TASK CHANGE</b>"
DepartmentMark == "(office) <b>Department:</b> "
ProjectMark == "(folder) <b>Project:</b> "
TasksMark == "(clipboard) <b>Tasks:</b> "
TitleMark == "(pin) <b>Title:</b> "
DescriptionMark == "(memo) <b>Description:</b> "
StatusMark == "(diamond) <b>Status:</b> "
ExecutorMark == "(person) <b>Executor:</b> "
AssignedByMark == "(officer) <b>Assigned by:</b> "
DeadlineMark == "(clock) <b>Deadline:</b> "
TelegramMark == "(phone) <b>Telegram:</b> "
LinkOpen == "(link) <a href='"
LinkClose == "'>Open in Notion</a>"

\* one conditional section: mark, value and the line ends after it
Section(value, mark, ends) == IF Truthy(value) THEN <<mark>> \o value \o ends ELSE <<>>

\* format_enhanced_telegram_message(data, change_type)
format_enhanced_telegram_message(data, change_type) ==
    <<IF change_type = "page.created" THEN EventCreated
      ELSE IF change_type = "page.properties_updated" THEN EventPropsUpdated
      ELSE EventOther, NL>>
    \o Section(data.department, DepartmentMark, <<NL>>)
    \o Section(data.project, ProjectMark, <<NL>>)
    \o Section(data.tasks, TasksMark, <<NL, NL>>)
    \o <<TitleMark>> \o (IF data.title = None THEN NoTitle ELSE data.title) \o <<NL>>
    \o Section(data.description, DescriptionMark, <<NL, NL>>)
    \o Section(data.status, StatusMark, <<NL>>)
    \o Section(data.executor, ExecutorMark, <<NL>>)
    \o Section(data.assigned_by, AssignedByMark, <<NL>>)
    \o Section(data.deadline, DeadlineMark, <<NL>>)
    \o Section(data.telegram_username, TelegramMark, <<NL>>)
    \o (IF Truthy(data.url) THEN <<NL, LinkOpen>> \o data.url \o <<LinkClose>> ELSE <<>>)

(***************************************************************************)
(* Status options and the keyboard.                                        *)
(***************************************************************************)
\* NotionIntegration.get_page_status_options: pageOk and dbOk say whether
\* pages.retrieve and databases.retrieve answered; any exception gives []
get_page_status_options(page, db, pageOk, dbOk) ==
    IF ~pageOk THEN <<>>
    ELSE IF page.statusProp = NoProp THEN <<>>
    ELSE IF page.parentType # "database_id" THEN <<>>
    ELSE IF ~dbOk THEN <<>>
    ELSE db.options

\* InlineKeyboardButton(status, callback_data=...)
Button(page_id, status) == [text |-> status, callback_data |-> CallbackData(page_id, status)]

\* a keyboard with one button in every row
KeyboardRows_OneColumn(page_id, status_options) ==
    [r \in 1..Len(status_options) |-> <<Button(page_id, status_options[r])>>]

\* _process_page_event: for i in range(0, len(status_options), 2): row of 2
KeyboardRows(page_id, status_options) ==
    [r \in 1..((Len(status_options) + 1) \div 2) |->
        IF 2 * r <= Len(status_options)
        THEN <<Button(page_id, status_options[2 * r - 1]), Button(page_id, status_options[2 * r])>>
        ELSE <<Button(page_id, status_options[2 * r - 1])>>]

\* reply_markup of _process_page_event: None (no keyboard) is <<>>
reply_markup_for(page_id, status_options) ==
    IF Len(status_options) > 0 THEN KeyboardRows(page_id, status_options) ELSE <<>>

RECURSIVE Flatten(_)
\* the buttons of a keyboard, row by row
Flatten(rows) == IF rows = <<>> THEN <<>> ELSE Head(rows) \o Flatten(Tail(rows))

(***************************************************************************)
(* The verification handshake (GET).  A query parameter is a text, None    *)
(* when the request does not carry it.  A response is a record             *)
(*   status_code, status (the body's "status" field, "<none>" if absent),  *)
(*   challenge (the body's "challenge" field, None if absent).             *)
(***************************************************************************)
NoField == "<none>"

ChallengeResponse(token) == [status_code |-> 200, status |-> NoField, challenge |-> token]
ErrorResponse(code) == [status_code |-> code, status |-> "error", challenge |-> None]
OkResponse == [status_code |-> 200, status |-> "ok", challenge |-> None]

\* the answer FastAPI gives to `raise HTTPException(status_code, detail)`: the
\* body is {"detail": detail}, without a status and without a challenge field
HTTPException(code) == [status_code |-> code, status |-> NoField, challenge |-> None]
NoResponse == [status_code |-> 0, status |-> NoField, challenge |-> None]

\* Python's `a or b`
Or(a, b) == IF Truthy(a) THEN a ELSE b

\* a handshake that answers whatever it finds first, empty or not
notion_webhook_verification_EchoEmpty(verification, challenge) ==
    IF verification # None THEN ChallengeResponse(verification)
    ELSE IF challenge # None THEN ChallengeResponse(challenge)
    ELSE ErrorResponse(400)

\* GET /notion-webhook: notion_webhook_verification
notion_webhook_verification(verification, challenge) ==
    LET verification_token == Or(verification, challenge)
    IN  IF Truthy(verification_token) THEN ChallengeResponse(verification_token)
        ELSE ErrorResponse(400)

\* GET /webhook/notion: webhook_verification(challenge, verification)
webhook_verification(challenge, verification) ==
    LET token == Or(challenge, verification)
    IN  IF Truthy(token) THEN ChallengeResponse(token)
        ELSE ErrorResponse(200)

(***************************************************************************)
(* The delivery (POST).  A body is a record                                *)
(*   utf8    whether body.decode('utf-8') succeeds                         *)
(*   json    whether json.loads returns a value for the decoded text       *)
(*   raises  what json.loads raises when it returns none: JSONDecodeError  *)
(*           for text that is not JSON, RecursionError for text nested     *)
(*           deeper than the interpreter's stack allows, ValueError for a  *)
(*           number with more digits than int() converts                   *)
(*   value   the parsed JSON value                                         *)
(* A JSON value is a record                                                *)
(*   kind    "object", or "null" / "list" for a value that is no object    *)
(*   type    the "type" field: a string, "<none>" when the key is absent   *)
(*   entity  [shape, type, id]: shape "missing" (no key), "null" or        *)
(*           "object"; type as above; id a text, None when absent          *)
(*   data    "missing", "null" or "object"                                 *)
(*   parent  data.parent, as entity                                        *)
(*   verification_token  whether the key is present                        *)
(***************************************************************************)
HandledTypes == {"page.created", "page.updated", "page.properties_updated"}

\* verify_signature: the check is switched off
verify_signature(body) == TRUE

\* where json.loads(body.decode('utf-8')) ends
ParseBody(body) ==
    IF ~body.utf8 THEN "UnicodeDecodeError"
    ELSE IF ~body.json THEN body.raises
    ELSE "parsed"

\* a receiver that turns away a JSON value that is no object
post_response_ObjectsOnly(body) ==
    IF ~body.utf8 THEN HTTPException(500)
    ELSE IF ~body.json
    THEN (IF body.raises = "JSONDecodeError" THEN HTTPException(400)
          ELSE HTTPException(500))
    ELSE IF body.value.kind # "object" THEN HTTPException(400)
    ELSE OkResponse

\* notion_webhook_post / webhook_root: the response.  The inner except takes
\* JSONDecodeError only; whatever else the decoding or the parsing raises
\* reaches the outer `except Exception`
post_response(body) ==
    IF ~verify_signature(body) THEN HTTPException(401)
    ELSE IF ParseBody(body) = "JSONDecodeError" THEN HTTPException(400)
    ELSE IF ParseBody(body) # "parsed" THEN HTTPException(500)
    ELSE OkResponse

\* notion_webhook_post / webhook_root: whether add_task is reached
post_schedules(body) == verify_signature(body) /\ ParseBody(body) = "parsed"

\* a handler that awaits the processing before it returns
schedule_processing_Awaited == "awaited"

\* how the handler arranges the processing: background_tasks.add_task
schedule_processing == "background"

\* an entity check that forgets the entity type
EntityNamesPage_AnyType(entity) == Truthy(entity.id)

\* the entity check of process_webhook_event: entity_type == 'page' and page_id
EntityNamesPage(entity) == entity.type = "page" /\ Truthy(entity.id)

\* a dispatcher that also relays deletions
DispatchedTypes_WithDeleted == HandledTypes \cup {"page.deleted"}

\* the event types process_webhook_event sends on to _process_page_event
DispatchedTypes == HandledTypes

\* process_webhook_event up to its first outbound call:
\* "drop" (return False) or "page" (call _process_page_event)
process_webhook_event(event_data) ==
    LET drop == [do |-> "drop", page_id |-> None, database_id |-> None]
    IN  IF event_data.kind # "object" THEN drop          \* .get raises, caught
        ELSE IF event_data.type \in {NoField, ""} THEN drop
        ELSE IF event_data.type \in DispatchedTypes
        THEN IF event_data.entity.shape = "null" THEN drop    \* None.get raises
             ELSE IF event_data.entity.shape = "missing" THEN drop
             ELSE IF EntityNamesPage(event_data.entity)
             THEN IF event_data.data = "null" THEN drop   \* 'parent' in None raises
                  ELSE IF event_data.data = "object" /\ event_data.parent.shape = "null"
                  THEN drop                               \* None.get raises
                  ELSE [do |-> "page",
                        page_id |-> event_data.entity.id,
                        database_id |->
                            IF event_data.data = "object"
                               /\ event_data.parent.shape = "object"
                               /\ event_data.parent.type = "database"
                            THEN event_data.parent.id ELSE None]
             ELSE drop
        ELSE drop

(***************************************************************************)
(* The callback handler's pure steps (handle_callback).                    *)
(***************************************************************************)
\* the names of a list
Names(list) == { list[i] : i \in 1..Len(list) }

\* the first name of available equal to status_name ignoring case, None if none
MatchingStatus(status_name, available) ==
    LET hits == { i \in 1..Len(available) : Lower(available[i]) = Lower(status_name) }
    IN  IF hits = {} THEN None
        ELSE available[CHOOSE i \in hits : \A j \in hits : i <= j]

\* a lookup that lets every name pass when the valid set is empty
ResolveStatus_TrustsEmptySet(status_name, available) ==
    IF available = <<>> \/ status_name \in Names(available) THEN status_name
    ELSE MatchingStatus(status_name, available)

\* a lookup that keeps the spelling that was asked for
ResolveStatus_KeepsSpelling(status_name, available) ==
    IF status_name \in Names(available) \/ MatchingStatus(status_name, available) # None
    THEN status_name ELSE None

\* handle_callback: the status name that is written, None when it is turned away
ResolveStatus(status_name, available) ==
    IF status_name \in Names(available) THEN status_name
    ELSE MatchingStatus(status_name, available)

\* the first index at or after i where text has a line end, Len(text) + 1 if none
RECURSIVE LineEnd(_, _)
LineEnd(text, i) ==
    IF i > Len(text) \/ text[i] = NL THEN i ELSE LineEnd(text, i + 1)

\* what re.sub raises when it cannot compile the replacement template
TemplateError == <<"<re.error>">>

Digits == {"0", "1", "2", "3", "4", "5", "6", "7", "8", "9"}
OctDigits == {"0", "1", "2", "3", "4", "5", "6", "7"}
AsciiLetters == { Chr(n) : n \in (65..90) \cup (97..122) }

\* int(d) of one digit
DigitVal(d) == Ord(d) - 48

\* ESCAPES of re._parser: the character each escape of a template stands for
Escapes ==
    [c \in {"a", "b", "f", "n", "r", "t", "v", "\\"} |->
        CASE c = "a" -> Chr(7) [] c = "b" -> Chr(8) [] c = "f" -> Chr(12)
          [] c = "n" -> Chr(10) [] c = "r" -> Chr(13) [] c = "t" -> Chr(9)
          [] c = "v" -> Chr(11) [] OTHER -> "\\"]

\* the white space int() takes around a number: the characters of
\* str.isspace() without the separators U+001C..U+001F
IntSpace == Whitespace \ { Chr(n) : n \in 28..31 }

\* int(name) = 0 for a group name that is no identifier, as parse_template of
\* Python 3.11 reads it: white space around, one sign, zeros with single
\* underscores between them
ZeroLiteral(name) ==
    LET kept == { k \in 1..Len(name) : name[k] \notin IntSpace }
        t == IF kept = {} THEN <<>>
             ELSE SubSeq(name, CHOOSE k \in kept : \A j \in kept : k <= j,
                               CHOOSE k \in kept : \A j \in kept : k >= j)
        d == IF t # <<>> /\ Head(t) \in {"+", "-"} THEN Tail(t) ELSE t
    IN  /\ d # <<>>
        /\ \A k \in 1..Len(d) : d[k] \in {"0", "_"}
        /\ d[1] = "0"
        /\ d[Len(d)] = "0"
        /\ \A k \in 1..(Len(d) - 1) : ~(d[k] = "_" /\ d[k + 1] = "_")

\* a piece of an expansion and what follows it; an error stays an error
Then(piece, rest) == IF rest = TemplateError THEN TemplateError ELSE piece \o rest

RECURSIVE ExpandTemplate(_, _, _)
\* re._parser.parse_template and expand_template for a pattern without groups:
\* what the template repl gives from index i on, for the matched text; a
\* backslash starts an escape: \g<0> is the matched text, \0 and three octal
\* digits a character by its code, \a \b \f \n \r \t \v \\ the character they
\* name; a reference to a group other than 0, a backslash before another ASCII
\* letter and a backslash at the end are errors; a backslash before anything
\* else stays
ExpandTemplate(repl, i, matched) ==
    IF i > Len(repl) THEN <<>>
    ELSE IF repl[i] # "\\" THEN Then(<<repl[i]>>, ExpandTemplate(repl, i + 1, matched))
    ELSE IF i = Len(repl) THEN TemplateError
    ELSE LET c == repl[i + 1]
             oct1 == i + 2 <= Len(repl) /\ repl[i + 2] \in OctDigits
             oct2 == oct1 /\ i + 3 <= Len(repl) /\ repl[i + 3] \in OctDigits
             close == IndexFrom(repl, ">", i + 3)
         IN  IF c = "g"
             THEN IF ~(i + 2 <= Len(repl) /\ repl[i + 2] = "<") THEN TemplateError
                  ELSE IF close = 0 \/ close = i + 3 THEN TemplateError
                  ELSE IF ZeroLiteral(SubSeq(repl, i + 3, close - 1))
                  THEN Then(matched, ExpandTemplate(repl, close + 1, matched))
                  ELSE TemplateError
             ELSE IF c = "0"
             THEN IF oct2
                  THEN Then(<<Chr(8 * DigitVal(repl[i + 2]) + DigitVal(repl[i + 3]))>>,
                            ExpandTemplate(repl, i + 4, matched))
                  ELSE IF oct1
                  THEN Then(<<Chr(DigitVal(repl[i + 2]))>>,
                            ExpandTemplate(repl, i + 3, matched))
                  ELSE Then(<<Chr(0)>>, ExpandTemplate(repl, i + 2, matched))
             ELSE IF c \in Digits
             THEN IF c \in OctDigits /\ oct2
                  THEN LET code == 64 * DigitVal(c) + 8 * DigitVal(repl[i + 2])
                                   + DigitVal(repl[i + 3])
                       IN  IF code > 255 THEN TemplateError
                           ELSE Then(<<Chr(code)>>, ExpandTemplate(repl, i + 4, matched))
                  ELSE TemplateError
             ELSE IF c \in DOMAIN Escapes
             THEN Then(<<Escapes[c]>>, ExpandTemplate(repl, i + 2, matched))
             ELSE IF c \in AsciiLetters THEN TemplateError
             ELSE Then(<<"\\", c>>, ExpandTemplate(repl, i + 2, matched))

\* the replacement of handle_callback's re.sub: f'(diamond) <b>Status:</b> {status_name}'
StatusTemplate(status_name) == <<StatusMark>> \o status_name

RECURSIVE SubStatusFrom(_, _, _)
\* re.sub(StatusMark + '.+', StatusTemplate(status_name), text) from index i on:
\* every occurrence of the marker followed by at least one character of the line
\* is replaced, up to the end of its line, by the expansion of the template;
\* the template is compiled before the text is searched, so a template that
\* does not compile is an error whether the marker occurs or not
SubStatusFrom(text, status_name, i) ==
    IF ExpandTemplate(StatusTemplate(status_name), 1, <<>>) = TemplateError
    THEN TemplateError
    ELSE IF i > Len(text) THEN <<>>
    ELSE IF text[i] = StatusMark /\ i + 1 <= Len(text) /\ text[i + 1] # NL
    THEN LET end == LineEnd(text, i + 1)
         IN  ExpandTemplate(StatusTemplate(status_name), 1, SubSeq(text, i, end - 1))
             \o SubStatusFrom(text, status_name, end)
    ELSE <<text[i]>> \o SubStatusFrom(text, status_name, i + 1)

\* updated_text of handle_callback, TemplateError when re.sub raises
updated_text_of(message_text, status_name) == SubStatusFrom(message_text, status_name, 1)

\* what the platform shows for a marker sent with parse_mode="HTML": the tags are
\* consumed and the text keeps the label only
RenderedMark(sym) ==
    CASE sym = EventCreated -> "(bell) NEW TASK"
      [] sym = EventPropsUpdated -> "(bell) TASK UPDATE"
      [] sym = EventOther -> "(bell) TASK CHANGE"
      [] sym = DepartmentMark -> "(office) Department: "
      [] sym = ProjectMark -> "(folder) Project: "
      [] sym = TasksMark -> "(clipboard) Tasks: "
      [] sym = TitleMark -> "(pin) Title: "
      [] sym = DescriptionMark -> "(memo) Description: "
      [] sym = StatusMark -> "(diamond) Status: "
      [] sym = ExecutorMark -> "(person) Executor: "
      [] sym = AssignedByMark -> "(officer) Assigned by: "
      [] sym = DeadlineMark -> "(clock) Deadline: "
      [] sym = TelegramMark -> "(phone) Telegram: "
      [] sym = LinkClose -> "(link) Open in Notion"
      [] OTHER -> sym

RECURSIVE RenderFrom(_, _)
\* the text of a message sent with parse_mode="HTML", as Message.text carries it:
\* tags consumed, the link's address gone from the text
RenderFrom(text, i) ==
    IF i > Len(text) THEN <<>>
    ELSE IF text[i] = LinkOpen
    THEN LET j == IndexFrom(text, LinkClose, i)
         IN  IF j = 0 THEN <<>> ELSE RenderFrom(text, j)
    ELSE <<RenderedMark(text[i])>> \o RenderFrom(text, i + 1)

Rendered(text) == RenderFrom(text, 1)

(***************************************************************************)
(* The values the receiver is driven with.                                 *)
(***************************************************************************)
P1 == <<"P", "1">>          \* a page of the document store
PX == <<"P", "X">>          \* an id the document store does not know
DB1 == <<"D", "B", "1">>    \* the database P1 lives in

Todo == <<"T", "o", "d", "o">>
Doing == <<"D", "o", "i", "n", "g">>
Done == <<"D", "o", "n", "e">>
InQA == <<"I", "n", ":", "Q", "A">>
OnHold == <<"O", "n", " ", "h", "o", "l", "d">>
AllOptions == <<Todo, Doing, Done, InQA, OnHold>>

\* the first n option names
Options(n) == SubSeq(AllOptions, 1, IF n < Len(AllOptions) THEN n ELSE Len(AllOptions))

Fix == <<"F", "i", "x">>
It == <<" ", "i", "t">>
Bob == <<"B", "o", "b">>
Desc == <<"d", "o", " ", "i", "t">>
Url == <<"h", "t", "t", "p", "s", ":", "/", "/", "n", "/", "P", "1">>
TasksDb == <<"T", "a", "s", "k", "s">>

NoPage == [id |-> None, title |-> <<>>, statusProp |-> NoProp, status |-> None,
           parentType |-> "workspace", description |-> <<>>, executor |-> <<>>,
           url |-> <<>>]

\* the shapes of P1 the receiver is checked with
\* a page of the store that the field extraction cannot read
BrokenPage ==
    [id |-> P1, title |-> <<Fix>>, statusProp |-> "Status", status |-> Todo,
     parentType |-> "database_id", description |-> Desc, executor |-> Unreadable,
     url |-> Url]

StorePages ==
    { [id |-> P1, title |-> t, statusProp |-> sp[1], status |-> sp[2],
       parentType |-> pt,
       description |-> IF rich THEN Desc ELSE <<>>,
       executor |-> IF rich THEN Bob ELSE <<>>,
       url |-> IF rich THEN Url ELSE <<>>] :
        t \in {<<>>, <<Fix>>, <<Fix, It>>},
        sp \in {<<"Status", Todo>>, <<"Status", None>>, <<"Stage", Todo>>, <<NoProp, None>>},
        pt \in {"database_id", "page_id"},
        rich \in BOOLEAN }
    \cup {BrokenPage}

StoreDbs == { [title |-> <<TasksDb>>, options |-> Options(n)] : n \in 0..MaxOptions }

NoEntity == [shape |-> "missing", type |-> NoField, id |-> None]
NullEntity == [shape |-> "null", type |-> NoField, id |-> None]
Entity(type, id) == [shape |-> "object", type |-> type, id |-> id]

NullValue == [kind |-> "null", type |-> NoField, entity |-> NoEntity, data |-> "missing",
              parent |-> NoEntity, verification_token |-> FALSE]
ListValue == [NullValue EXCEPT !.kind = "list"]

Event(type, entity, data, parent, vt) ==
    [kind |-> "object", type |-> type, entity |-> entity, data |-> data,
     parent |-> parent, verification_token |-> vt]

\* events of a type the dispatcher does not handle
UnhandledEvents ==
    { Event(t, e, "missing", NoEntity, vt) :
        t \in {NoField, "", "page.deleted", "comment.created"},
        e \in {NoEntity, Entity("page", P1)},
        vt \in BOOLEAN }

\* events of a handled type whose entity does not name a page
BadEntityEvents ==
    { Event(t, e, "missing", NoEntity, FALSE) :
        t \in HandledTypes,
        e \in {NoEntity, NullEntity, Entity("page", <<>>), Entity("page", None),
               Entity("database", P1), Entity(NoField, P1)} }

\* events of a handled type for a page
PageEvents ==
    { Event(t, Entity("page", P1), dp[1], dp[2], FALSE) :
        t \in HandledTypes,
        dp \in {<<"missing", NoEntity>>, <<"null", NoEntity>>, <<"object", NoEntity>>,
                <<"object", NullEntity>>, <<"object", Entity("database", DB1)>>,
                <<"object", Entity("page", P1)>>} }
    \cup { Event(t, Entity("page", id), "missing", NoEntity, vt) :
             t \in HandledTypes, id \in {P1, PX}, vt \in BOOLEAN }

Events == UnhandledEvents \cup BadEntityEvents \cup PageEvents

Body(utf8, json, value) ==
    [utf8 |-> utf8, json |-> json, value |-> value,
     raises |-> IF utf8 /\ ~json THEN "JSONDecodeError" ELSE "none"]

\* text that json.loads gives up on with an exception of another class:
\* b'[' * 100000 (RecursionError), b'1' * 5000 (ValueError)
OverLimit(error) ==
    [utf8 |-> TRUE, json |-> FALSE, value |-> NullValue, raises |-> error]

ParserLimits == {"RecursionError", "ValueError"}

NoBody == Body(TRUE, FALSE, NullValue)    \* the empty body: json.loads("") fails

Bodies ==
    {Body(FALSE, FALSE, NullValue), Body(TRUE, FALSE, NullValue)}
    \cup { OverLimit(e) : e \in ParserLimits }
    \cup { Body(TRUE, TRUE, v) : v \in Events \cup {NullValue, ListValue} }

Tokens == {None, <<>>, <<"t", "1">>, <<"t", "2">>}

GetPaths == {"/notion-webhook", "/webhook/notion"}
PostPaths == {"/notion-webhook", "/"}

(***************************************************************************)
(* The receiver and the dispatcher as a state machine.                     *)
(*                                                                         *)
(*   notion        the document store: [page, db]                          *)
(*   clients       [notion, telegram]: whether each client handle is set   *)
(*   phase         "idle", "returned" (the handler returned, the response  *)
(*                 is not yet on the wire), "responded"                    *)
(*   request       the current request                                     *)
(*   response      its response                                            *)
(*   task          the processing of the delivered event                   *)
(*   trace         what this delivery did, in order                        *)
(*   channel       the messages this delivery sent to the channel          *)
(* This specification follows one exchange at a time, from the request to  *)
(* the end of its background task; the requests the server takes while a   *)
(* task waits for the platform are followed in SpecLoop.                   *)
(*                                                                         *)
(* The callback handler (handle_callback) adds                             *)
(*   chat          the notification a button of which is pressed           *)
(*   cb            the handler's position and locals                       *)
(*   answers       the answers given to the callback query, in order       *)
(*   edits         the texts passed to edit_message_text, in order         *)
(* the identifier round trip adds                                          *)
(*   codec         a page id and a status name, encoded and decoded        *)
(* and the chat message handlers (start_command, handle_message) add       *)
(*   inbox         the chat message delivered to the bot, the handler it   *)
(*                 was routed to and the replies it got                    *)
(***************************************************************************)
VARIABLES notion, clients, phase, request, response, task, trace, channel,
          chat, cb, answers, edits, codec, inbox, upd, loop, hier, hook, duo, client

receiverVars == <<phase, request, response, task, channel>>
callbackVars == <<chat, cb, answers, edits>>
codecVars == <<codec>>
chatVars == <<inbox>>
\* upd: one call of update_page_property; loop: the event loop with its
\* requests and background tasks; hier: one call of get_hierarchy_components;
\* hook: one delivery to the Telegram update endpoint; duo: two presses on one
\* notification; client: one call of the channel client
laterVars == <<upd, loop, hier, hook, duo, client>>

vars == <<notion, clients, trace, receiverVars, callbackVars, codecVars, chatVars,
          laterVars>>

NoRequest == [method |-> "none", path |-> "", verification |-> None, challenge |-> None,
              body |-> NoBody]

NoData == extract_all_fields(NoPage, NoHierarchy)

NoChat == [exists |-> FALSE, data |-> NoData, change_type |-> NoField, text |-> <<>>,
           reply_markup |-> <<>>]

NoCb == [pc |-> "idle", data |-> None, has_message |-> FALSE, message_text |-> <<>>,
         page_id |-> None, requested |-> None, status_name |-> None,
         status_property_name |-> NoProp, available |-> <<>>, written |-> None,
         success |-> FALSE, notice |-> "none", attempts |-> 0, rendered |-> FALSE,
         failed |-> {}]

NoCodec == [pc |-> "idle", page_id |-> None, status |-> None, data |-> None,
            decoded |-> [kind |-> "none", page_id |-> None, status_name |-> None]]

NoInbox == [pc |-> "idle", text |-> <<>>, command |-> FALSE, handler |-> "none",
            pending |-> "none", reply_markup |-> <<>>, replies |-> <<>>]

NoUpd == [pc |-> "idle", page |-> <<>>, before |-> <<>>, property_name |-> NoProp,
          property_value |-> None, updates |-> <<>>, result |-> "none"]
NoLoop == [reqs |-> [d \in 1..MaxDeliveries |-> [kind |-> "none", pc |-> "none"]],
           tasks |-> [d \in 1..MaxDeliveries |-> [pc |-> "none", result |-> "none"]],
           holder |-> 0, inflight |-> {}, accepted |-> <<>>, delivered |-> <<>>]
NoHier == [pc |-> "idle", store |-> <<>>, database_id |-> None, result |-> NoHierarchy,
           fetched |-> <<>>]
NoHook == [pc |-> "idle", app |-> FALSE, body |-> <<>>, built |-> "none",
           processed |-> "none", response |-> NoResponse]
NoDuo == [page |-> NoPage, message |-> <<>>, pending |-> {},
          h |-> [i \in 1..2 |-> [pc |-> "none", status_name |-> None, form |-> "none",
                                message_text |-> <<>>, updated_text |-> <<>>,
                                written |-> FALSE, edited |-> FALSE]]]

NoClient == [pc |-> "idle", call |-> "none", items |-> <<>>, i |-> 0, sent_count |-> 0,
             trace |-> <<>>, channel |-> <<>>, returned |-> "none"]

\* the variables of the later specifications at rest
LaterAtRest ==
    /\ upd = NoUpd
    /\ loop = NoLoop
    /\ hier = NoHier
    /\ hook = NoHook
    /\ duo = NoDuo
    /\ client = NoClient

\* the variables of the callback handler, the round trip and the chat at rest
OthersAtRest ==
    /\ LaterAtRest
    /\ chat = NoChat
    /\ cb = NoCb
    /\ answers = <<>>
    /\ edits = <<>>
    /\ codec = NoCodec
    /\ inbox = NoInbox

NoTask == [pc |-> "none", event |-> NullValue, event_type |-> NoField, page_id |-> None,
           database_id |-> None, page_data |-> NoPage, text |-> <<>>,
           reply_markup |-> <<>>, vendor_failed |-> FALSE, result |-> "none"]

Init ==
    /\ notion \in [page : StorePages, db : StoreDbs]
    /\ clients \in [notion : BOOLEAN, telegram : BOOLEAN]
    /\ phase = "idle"
    /\ request = NoRequest
    /\ response = NoResponse
    /\ task = NoTask
    /\ trace = <<>>
    /\ channel = <<>>
    /\ OthersAtRest

\* the server waits for a request and no exchange is being followed
Quiet == phase = "idle"

\* the exchange is over: the response is out and the task has ended
Over == phase = "responded" /\ task.pc \in {"none", "done"}

\* GET on a verification path: the whole handler
GetVerification ==
    /\ Quiet
    /\ \E path \in GetPaths, v \in Tokens, c \in Tokens :
        /\ request' = [method |-> "GET", path |-> path, verification |-> v,
                       challenge |-> c, body |-> NoBody]
        /\ response' = IF path = "/notion-webhook"
                       THEN notion_webhook_verification(v, c)
                       ELSE webhook_verification(c, v)
    /\ task' = NoTask
    /\ trace' = <<"http_response">>
    /\ channel' = <<>>
    /\ phase' = "responded"
    /\ UNCHANGED <<notion, clients>>
    /\ UNCHANGED <<callbackVars, codecVars, chatVars, laterVars>>

\* POST on a delivery path: notion_webhook_post / webhook_root up to its return
PostWebhook ==
    /\ Quiet
    /\ \E path \in PostPaths, body \in Bodies :
        /\ request' = [method |-> "POST", path |-> path, verification |-> None,
                       challenge |-> None, body |-> body]
        /\ response' = post_response(body)
        /\ IF post_schedules(body)
           THEN /\ task' = [NoTask EXCEPT !.pc = "scheduled", !.event = body.value]
                /\ trace' = <<"add_task">>
           ELSE /\ task' = NoTask
                /\ trace' = <<>>
    /\ phase' = "returned"
    /\ channel' = <<>>
    /\ UNCHANGED <<notion, clients>>
    /\ UNCHANGED <<callbackVars, codecVars, chatVars, laterVars>>

\* the response goes out; with add_task that is before the task runs
SendResponse ==
    /\ phase = "returned"
    /\ schedule_processing = "awaited" => task.pc \in {"none", "done"}
    /\ phase' = "responded"
    /\ trace' = Append(trace, "http_response")
    /\ UNCHANGED <<notion, clients, request, response, task, channel>>
    /\ UNCHANGED <<callbackVars, codecVars, chatVars, laterVars>>

\* the background task may run: after the response, unless the handler awaits it
TaskMayRun ==
    IF schedule_processing = "background" THEN phase = "responded" ELSE phase = "returned"

\* process_webhook_event: classification of the event
Dispatch ==
    /\ task.pc = "scheduled"
    /\ TaskMayRun
    /\ LET d == process_webhook_event(task.event)
       IN  IF d.do = "page"
           THEN task' = [task EXCEPT !.pc = "fetch", !.event_type = task.event.type,
                                     !.page_id = d.page_id,
                                     !.database_id = d.database_id]
           ELSE task' = [task EXCEPT !.pc = "done", !.result = "False"]
    /\ UNCHANGED <<notion, clients, phase, request, response, trace, channel>>
    /\ UNCHANGED <<callbackVars, codecVars, chatVars, laterVars>>

\* _process_page_event: page_data = notion_client.get_page_data(page_id)
FetchPage ==
    /\ task.pc = "fetch"
    /\ IF ~clients.notion
       THEN /\ task' = [task EXCEPT !.pc = "done", !.result = "False"]
            /\ trace' = trace
       ELSE /\ trace' = Append(trace, "notion.pages.retrieve")
            /\ \E ok \in BOOLEAN :
                IF ok /\ task.page_id = notion.page.id
                THEN task' = [task EXCEPT !.pc = "extract", !.page_data = notion.page]
                ELSE task' = [task EXCEPT !.pc = "done", !.result = "False",
                                          !.vendor_failed = TRUE]
    /\ UNCHANGED <<notion, clients, phase, request, response, channel>>
    /\ UNCHANGED <<callbackVars, codecVars, chatVars, laterVars>>

\* _process_page_event: extract_all_fields and the formatting
ExtractAndFormat ==
    /\ task.pc = "extract"
    /\ \E nameOk \in BOOLEAN :
        LET hierarchy == get_hierarchy_components(task.database_id, notion.db, nameOk)
            data == extract_all_fields(task.page_data, hierarchy)
        IN  /\ Truthy(task.database_id) \/ nameOk
            /\ task' = [task EXCEPT !.pc = "keyboard",
                           !.vendor_failed = ~nameOk,
                           !.text = format_enhanced_telegram_message(data, task.event_type)]
    /\ trace' = IF Truthy(task.database_id)
                THEN trace \o <<"notion.databases.retrieve", "notion.databases.retrieve">>
                ELSE trace
    /\ UNCHANGED <<notion, clients, phase, request, response, channel>>
    /\ UNCHANGED <<callbackVars, codecVars, chatVars, laterVars>>

\* _process_page_event: the status options and the keyboard built from them
BuildKeyboard ==
    /\ task.pc = "keyboard"
    /\ IF ~(Truthy(task.page_id) /\ clients.notion)
       THEN /\ task' = [task EXCEPT !.pc = "send"]
            /\ trace' = trace
       ELSE \E pageOk \in BOOLEAN, dbOk \in BOOLEAN :
            LET reaches_db == /\ pageOk
                              /\ task.page_data.statusProp # NoProp
                              /\ task.page_data.parentType = "database_id"
                status_options ==
                    get_page_status_options(task.page_data, notion.db, pageOk, dbOk)
            IN  /\ reaches_db \/ dbOk
                /\ task' = [task EXCEPT !.pc = "send",
                               !.vendor_failed = @ \/ ~pageOk \/ ~dbOk,
                               !.reply_markup = reply_markup_for(task.page_id, status_options)]
                /\ trace' = trace \o <<"notion.pages.retrieve">>
                                  \o (IF reaches_db THEN <<"notion.databases.retrieve">>
                                      ELSE <<>>)
    /\ UNCHANGED <<notion, clients, phase, request, response, channel>>
    /\ UNCHANGED <<callbackVars, codecVars, chatVars, laterVars>>

\* a notifier that lets an exception of the send go up to its caller
send_result_Propagates(outcome) ==
    CASE outcome = "ok" -> "True"
      [] outcome = "TelegramError" -> "False"
      [] OTHER -> "raised"

\* what _process_page_event returns for the outcome of bot.send_message:
\* send_custom_message turns a TelegramError into False, any other exception is
\* caught by _process_page_event, which returns False
send_result(outcome) == IF outcome = "ok" THEN "True" ELSE "False"

\* a notifier that sends once more when the first send failed
send_calls_RetryOnFailure(outcome) ==
    IF outcome = "ok" THEN <<"telegram.send_message">>
    ELSE <<"telegram.send_message", "telegram.send_message">>

\* TelegramIntegration.send_custom_message: the calls of bot.send_message it makes,
\* one whatever the outcome
send_calls(outcome) == <<"telegram.send_message">>

\* _process_page_event: telegram_client.send_custom_message(text, reply_markup)
SendMessage ==
    /\ task.pc = "send"
    /\ IF ~clients.telegram
       THEN /\ task' = [task EXCEPT !.pc = "done", !.result = "False"]
            /\ UNCHANGED <<trace, channel>>
       ELSE \E outcome \in {"ok", "TelegramError", "Exception"} :
                /\ trace' = trace \o send_calls(outcome)
                /\ IF outcome = "ok"
                   THEN /\ channel' = Append(channel, [text |-> task.text,
                                                       reply_markup |-> task.reply_markup])
                        /\ task' = [task EXCEPT !.pc = "done",
                                                !.result = send_result(outcome)]
                   ELSE /\ UNCHANGED channel
                        /\ task' = [task EXCEPT !.pc = "done",
                                                !.result = send_result(outcome),
                                                !.vendor_failed = TRUE]
    /\ UNCHANGED <<notion, clients, phase, request, response>>
    /\ UNCHANGED <<callbackVars, codecVars, chatVars, laterVars>>

\* the message test_send sends when the body has no 'message' key
DefaultTestMessage ==
    <<"T", "e", "s", "t", " ", "w", "e", "b", "h", "o", "o", "k", " ", "w",
      "i", "t", "h", " ", "s", "e", "p", "a", "r", "a", "t", "e", "d", " ",
      "h", "i", "e", "r", "a", "r", "c", "h", "y">>

\* the bodies of POST /test/send, as request.json() reads them: json.loads
\* takes the bytes, names their encoding (UTF-8, with a byte order mark or
\* without, UTF-16 or UTF-32) and decodes them.  Bytes that do not decode (decodes FALSE), text that is not JSON or
\* that the parser gives up on (json FALSE), a JSON value that is no object,
\* an object without the key 'message' (message Missing), with the message
\* null (None) and with a text
TestEncodings == {"utf-8", "utf-8-sig", "utf-16", "utf-32"}

TestBodies ==
    { [encoding |-> "utf-8", decodes |-> FALSE, json |-> FALSE, raises |-> "none",
       kind |-> "none", message |-> Missing] }
    \cup { [encoding |-> "utf-8", decodes |-> TRUE, json |-> FALSE, raises |-> e,
            kind |-> "none", message |-> Missing] :
            e \in {"JSONDecodeError"} \cup ParserLimits }
    \cup { [encoding |-> "utf-8", decodes |-> TRUE, json |-> TRUE, raises |-> "none",
            kind |-> k, message |-> Missing] : k \in {"null", "list"} }
    \cup { [encoding |-> enc, decodes |-> TRUE, json |-> TRUE, raises |-> "none",
            kind |-> "object", message |-> m] :
            enc \in TestEncodings, m \in {Missing, None, Desc, Fix \o It} }

\* the answer of test_send: always 200; "ok" when the send gave True, "error"
\* when it gave False, when there is no Telegram client and when anything raised
test_send_response(sent) == IF sent THEN OkResponse ELSE ErrorResponse(200)

\* POST /test/send: test_send up to its return.  request.json() and data.get
\* raise on a body that is no JSON object; with a Telegram client the message
\* is sent through send_custom_message without a keyboard; a TelegramError
\* gives False, any other exception goes to the handler's except
TestSend ==
    /\ Quiet
    /\ \E body \in TestBodies, outcome \in {"ok", "TelegramError", "Exception"} :
        LET readable == body.decodes /\ body.json /\ body.kind = "object"
            message == IF body.message = Missing THEN DefaultTestMessage
                       ELSE body.message
            calls == readable /\ clients.telegram
        IN  /\ calls \/ outcome = "ok"
            /\ request' = [method |-> "POST", path |-> "/test/send",
                           verification |-> None, challenge |-> None, body |-> body]
            /\ response' = test_send_response(calls /\ outcome = "ok")
            /\ trace' = IF calls THEN send_calls(outcome) ELSE <<>>
            /\ channel' = IF calls /\ outcome = "ok"
                          THEN <<[text |-> message, reply_markup |-> <<>>]>>
                          ELSE <<>>
    /\ task' = NoTask
    /\ phase' = "returned"
    /\ UNCHANGED <<notion, clients>>
    /\ UNCHANGED <<callbackVars, codecVars, chatVars, laterVars>>

\* the server is ready for the next request; nothing of the exchange is kept
NextRequest ==
    /\ Over
    /\ phase' = "idle"
    /\ request' = NoRequest
    /\ response' = NoResponse
    /\ task' = NoTask
    /\ trace' = <<>>
    /\ channel' = <<>>
    /\ UNCHANGED <<notion, clients>>
    /\ UNCHANGED <<callbackVars, codecVars, chatVars, laterVars>>

Next ==
    \/ NextRequest
    \/ GetVerification
    \/ PostWebhook
    \/ TestSend
    \/ SendResponse
    \/ Dispatch
    \/ FetchPage
    \/ ExtractAndFormat
    \/ BuildKeyboard
    \/ SendMessage

Spec == Init /\ [][Next]_vars

(***************************************************************************)
(* The identifier round trip: a page id and a status name are encoded as   *)
(* the Notifier does and decoded as the Callback Handler does.  Page ids   *)
(* are ids of the document store: letters, digits and hyphens.             *)
(***************************************************************************)
UuidLike == [i \in 1..36 |-> IF i \in {9, 14, 19, 24} THEN "-" ELSE "a"]

CodecPageIds == {P1, UuidLike}

CodecNames ==
    { prefix \o Rep(fill, n) :
        prefix \in {<<>>, <<":">>, <<"A", ":">>, <<"D", "o", ":", ":">>},
        fill \in {"a", ":", "U+00E9", "U+20AC"},
        n \in 0..MaxNameLen }

\* the receiver and the callback handler at rest
ReceiverAtRest ==
    /\ notion = [page |-> NoPage, db |-> [title |-> <<TasksDb>>, options |-> <<>>]]
    /\ clients = [notion |-> TRUE, telegram |-> TRUE]
    /\ phase = "idle"
    /\ request = NoRequest
    /\ response = NoResponse
    /\ task = NoTask
    /\ trace = <<>>
    /\ channel = <<>>

InitCodec ==
    /\ ReceiverAtRest
    /\ chat = NoChat
    /\ cb = NoCb
    /\ answers = <<>>
    /\ edits = <<>>
    /\ inbox = NoInbox
    /\ codec \in { [NoCodec EXCEPT !.page_id = id, !.status = name] :
                     id \in CodecPageIds, name \in CodecNames }
    /\ LaterAtRest

\* the Notifier builds the button's callback_data
Encode ==
    /\ codec.pc = "idle"
    /\ codec' = [codec EXCEPT !.pc = "encoded",
                              !.data = CallbackData(codec.page_id, codec.status)]
    /\ UNCHANGED <<notion, clients, trace, receiverVars, callbackVars, chatVars, laterVars>>

\* the Callback Handler decodes the identifier the platform echoes
Decode ==
    /\ codec.pc = "encoded"
    /\ codec' = [codec EXCEPT !.pc = "decoded", !.decoded = DecodeCallback(codec.data)]
    /\ UNCHANGED <<notion, clients, trace, receiverVars, callbackVars, chatVars, laterVars>>

NextCodec == Encode \/ Decode

SpecCodec == InitCodec /\ [][NextCodec]_vars

(***************************************************************************)
(* The callback handler (handle_callback): a button of the notification    *)
(* sent for page P1 is pressed.  One action per awaited call or blocking   *)
(* call to the document store.                                             *)
(***************************************************************************)
UpperDoing == <<"D", "O", "I", "N", "G">>
LowerDoing == <<"d", "o", "i", "n", "g">>
Gone == <<"G", "o", "n", "e">>

\* a description that holds the literal characters of the status marker
DescWithMark == <<"s", "e", "e", " ", StatusMark, "x">>

\* the shapes of P1 the callback handler is checked with
CallbackPages ==
    { [id |-> P1, title |-> <<Fix>>, statusProp |-> sp[1], status |-> sp[2],
       parentType |-> sp[3], description |-> d, executor |-> Bob, url |-> Url] :
        sp \in {<<"Status", Todo, "database_id">>, <<"Stage", Todo, "database_id">>,
                <<NoProp, None, "database_id">>, <<"Status", Todo, "page_id">>},
        d \in {<<>>, Desc, DescWithMark} }

\* a status name of 55 characters: with the 10 bytes of "status:P1:" the
\* button's identifier is over the limit and the name is cut to 54 characters
LongStatus == Rep("w", 55)

\* status names with a backslash: in a replacement template the first reads as a
\* line feed followed by "ew", the second as a reference to group 1
WinPath == <<"C", ":", "\\", "n", "e", "w">>
BackRef == <<"x", "\\", "1">>

\* the option lists of its database; one of them holds two spellings of a name,
\* one a name with a colon and a name that does not fit the identifier, one
\* the names with a backslash
CallbackDbs ==
    StoreDbs \cup {[title |-> <<TasksDb>>, options |-> <<Todo, UpperDoing, Doing>>],
                   [title |-> <<TasksDb>>, options |-> <<Todo, InQA, LongStatus>>],
                   [title |-> <<TasksDb>>, options |-> <<Todo, WinPath, BackRef>>]}

\* the status names on the buttons that are pressed
PressedNames ==
    {Todo, Doing, Done, LowerDoing, UpperDoing, InQA, Gone, LongStatus, WinPath, BackRef}

\* query.data: None, not a status command, two parts only, or a button's data
PressedData ==
    {None, <<"x">>, StatusPrefix \o P1}
    \cup { CallbackData(P1, n) : n \in PressedNames }
    \cup { CallbackData(PX, Todo) }

\* the notification the Notifier sent for the page as the store holds it
NotificationFor(page, db) ==
    LET data == extract_all_fields(page, get_hierarchy_components(DB1, db, TRUE))
    IN  [exists |-> TRUE, data |-> data, change_type |-> "page.properties_updated",
         text |-> format_enhanced_telegram_message(data, "page.properties_updated"),
         reply_markup |-> reply_markup_for(P1, get_page_status_options(page, db, TRUE, TRUE))]

InitCallback ==
    /\ notion \in [page : CallbackPages, db : CallbackDbs]
    /\ clients \in [notion : BOOLEAN, telegram : {TRUE}]
    /\ phase = "idle"
    /\ request = NoRequest
    /\ response = NoResponse
    /\ task = NoTask
    /\ trace = <<>>
    /\ channel = <<>>
    /\ chat = NotificationFor(notion.page, notion.db)
    /\ cb = NoCb
    /\ answers = <<>>
    /\ edits = <<>>
    /\ codec = NoCodec
    /\ inbox = NoInbox
    /\ LaterAtRest

\* the handler goes on to answer the query with a notice; attempts counts the
\* answers that are tried when each one raises (the except clauses that follow)
GoNotice(kind, attempts) == [cb EXCEPT !.pc = "notice", !.notice = kind, !.attempts = attempts]

\* the steps of the handling that have failed so far, with one more
Failing(step) == cb.failed \cup {step}

\* show_alert of the answer that carries the notice
ShowAlert(kind) == kind # "status_changed"

\* a button is pressed: handle_callback up to its first awaited call.
\* query.message is None, or its text is the text as it was sent or the text as
\* the platform shows it
Press ==
    /\ cb.pc = "idle"
    /\ chat.exists
    /\ \E data \in PressedData, shown \in {"none", "sent", "rendered"} :
        LET entered == [cb EXCEPT !.data = data,
                                  !.has_message = (shown # "none"),
                                  !.rendered = (shown = "rendered"),
                                  !.message_text = CASE shown = "none" -> <<>>
                                                     [] shown = "sent" -> chat.text
                                                     [] OTHER -> Rendered(chat.text)]
        IN  cb' = IF ~Truthy(data)
                  THEN [entered EXCEPT !.pc = "notice", !.notice = "no_data", !.attempts = 2]
                  ELSE IF ~clients.notion
                  THEN [entered EXCEPT !.pc = "notice", !.notice = "no_client",
                                       !.attempts = 2]
                  ELSE [entered EXCEPT !.pc = "ack"]
    /\ UNCHANGED <<notion, clients, trace, chat, answers, edits>>
    /\ UNCHANGED <<receiverVars, codecVars, chatVars, laterVars>>

\* a handler that gives up when its first answer fails
after_first_answer_Aborts(ok) == IF ok THEN "decode" ELSE "done"

\* where handle_callback goes after its first answer: the try around
\* query.answer() logs a failure and the handler goes on
after_first_answer(ok) == "decode"

\* await query.answer(): a failure is logged and the handler goes on
Acknowledge ==
    /\ cb.pc = "ack"
    /\ trace' = Append(trace, "telegram.answer_callback_query")
    /\ \E ok \in BOOLEAN :
        /\ answers' = IF ok THEN Append(answers, [notice |-> "ack", show_alert |-> FALSE])
                      ELSE answers
        /\ cb' = [cb EXCEPT !.pc = after_first_answer(ok),
                            !.failed = IF ok THEN @ ELSE Failing("acknowledgment")]
    /\ UNCHANGED <<notion, clients, chat, edits>>
    /\ UNCHANGED <<receiverVars, codecVars, chatVars, laterVars>>

\* data.startswith('status:'), data.split(':', 2), then pages.retrieve and the
\* search for the property of type status
DecodeAndRetrieve ==
    /\ cb.pc = "decode"
    /\ LET d == DecodeCallback(cb.data)
       IN  CASE d.kind = "unknown" ->
                  /\ cb' = [GoNotice("unknown_command", 1) EXCEPT !.failed = Failing("decode")]
                  /\ trace' = trace
             [] d.kind = "badformat" ->
                  /\ cb' = [GoNotice("bad_format", 1) EXCEPT !.failed = Failing("decode")]
                  /\ trace' = trace
             [] OTHER ->
                  /\ trace' = Append(trace, "notion.pages.retrieve")
                  /\ \E ok \in BOOLEAN :
                      LET decoded == [cb EXCEPT !.page_id = d.page_id,
                                                !.requested = d.status_name,
                                                !.status_name = d.status_name]
                      IN  cb' = IF ~(ok /\ d.page_id = notion.page.id)
                                THEN [decoded EXCEPT !.pc = "notice", !.notice = "error",
                                                     !.attempts = 2,
                                                     !.failed = Failing("retrieve")]
                                ELSE IF notion.page.statusProp = NoProp
                                THEN [decoded EXCEPT !.pc = "notice",
                                                     !.notice = "no_status_property",
                                                     !.attempts = 3,
                                                     !.failed = Failing("validation")]
                                ELSE [decoded EXCEPT !.pc = "validate",
                                         !.status_property_name = notion.page.statusProp]
    /\ UNCHANGED <<notion, clients, chat, answers, edits>>
    /\ UNCHANGED <<receiverVars, codecVars, chatVars, laterVars>>

\* get_page_status_options(page_id) and the check of the requested name
Validate ==
    /\ cb.pc = "validate"
    /\ \E pageOk \in BOOLEAN, dbOk \in BOOLEAN :
        LET reaches_db == /\ pageOk
                          /\ notion.page.statusProp # NoProp
                          /\ notion.page.parentType = "database_id"
            available_statuses == get_page_status_options(notion.page, notion.db, pageOk, dbOk)
            resolved == ResolveStatus(cb.status_name, available_statuses)
        IN  /\ reaches_db \/ dbOk
            /\ trace' = trace \o <<"notion.pages.retrieve">>
                              \o (IF reaches_db THEN <<"notion.databases.retrieve">> ELSE <<>>)
            /\ cb' = IF resolved = None
                     THEN [cb EXCEPT !.pc = "notice", !.notice = "status_not_found",
                                     !.attempts = 3, !.available = available_statuses,
                                     !.failed = Failing("validation")]
                     ELSE [cb EXCEPT !.pc = "apply", !.status_name = resolved,
                                     !.available = available_statuses]
    /\ UNCHANGED <<notion, clients, chat, answers, edits>>
    /\ UNCHANGED <<receiverVars, codecVars, chatVars, laterVars>>

\* a handler that edits the message whatever the update returned
after_update_AlwaysReflects(success) == "reflect"

\* handle_callback: if success: edit and confirm, else: the failure alert
after_update(success) == IF success THEN "reflect" ELSE "notice"

\* NotionIntegration.update_page_property(page_id, status_property_name, status_name):
\* pages.retrieve, then pages.update with {"status": {"name": status_name}};
\* any exception gives False
Apply ==
    /\ cb.pc = "apply"
    /\ \E retrieved \in BOOLEAN, updated \in BOOLEAN :
        LET has_property == retrieved /\ cb.status_property_name = notion.page.statusProp
            success == has_property /\ updated
        IN  /\ has_property \/ updated
            /\ trace' = trace \o <<"notion.pages.retrieve">>
                              \o (IF has_property THEN <<"notion.pages.update">> ELSE <<>>)
            /\ notion' = IF success THEN [notion EXCEPT !.page.status = cb.status_name]
                         ELSE notion
            /\ cb' = IF success
                     THEN [cb EXCEPT !.pc = after_update(success), !.success = TRUE,
                                     !.written = cb.status_name]
                     ELSE [cb EXCEPT !.pc = after_update(success),
                                     !.notice = "update_failed", !.attempts = 3,
                                     !.failed = Failing("write")]
    /\ UNCHANGED <<clients, chat, answers, edits>>
    /\ UNCHANGED <<receiverVars, codecVars, chatVars, laterVars>>

\* if query.message: re.sub on the message text and edit_message_text with the
\* message's own reply_markup; a failure of either is logged and the handler
\* goes on: when re.sub raises, edit_message_text is not called
Reflect ==
    /\ cb.pc = "reflect"
    /\ IF cb.has_message
       THEN LET updated_text == updated_text_of(cb.message_text, cb.status_name)
            IN  IF updated_text = TemplateError
                THEN /\ UNCHANGED <<trace, edits, chat>>
                     /\ cb' = [cb EXCEPT !.pc = "notice", !.notice = "status_changed",
                                         !.attempts = 3, !.failed = Failing("edit")]
                ELSE /\ trace' = Append(trace, "telegram.edit_message_text")
                     /\ edits' = Append(edits, [text |-> updated_text,
                                                reply_markup |-> chat.reply_markup])
                     /\ \E ok \in BOOLEAN :
                         /\ chat' = IF ok THEN [chat EXCEPT !.text = updated_text]
                                    ELSE chat
                         /\ cb' = [cb EXCEPT !.pc = "notice", !.notice = "status_changed",
                                             !.attempts = 3,
                                             !.failed = IF ok THEN @ ELSE Failing("edit")]
       ELSE /\ UNCHANGED <<trace, edits, chat>>
            /\ cb' = [cb EXCEPT !.pc = "notice", !.notice = "status_changed",
                                !.attempts = 3]
    /\ UNCHANGED <<notion, clients, answers>>
    /\ UNCHANGED <<receiverVars, codecVars, chatVars, laterVars>>

\* await query.answer(notice): when it raises, the except clause that follows
\* answers with an error notice, as long as there is one
Notice ==
    /\ cb.pc = "notice"
    /\ trace' = Append(trace, "telegram.answer_callback_query")
    /\ \E ok \in BOOLEAN :
        IF ok
        THEN /\ answers' = Append(answers, [notice |-> cb.notice,
                                            show_alert |-> ShowAlert(cb.notice)])
             /\ cb' = [cb EXCEPT !.pc = "done", !.attempts = 0]
        ELSE /\ answers' = answers
             /\ cb' = IF cb.attempts > 1
                      THEN [cb EXCEPT !.notice = "error", !.attempts = @ - 1]
                      ELSE [cb EXCEPT !.pc = "done", !.attempts = 0]
    /\ UNCHANGED <<notion, clients, chat, edits>>
    /\ UNCHANGED <<receiverVars, codecVars, chatVars, laterVars>>

NextCallback ==
    \/ Press
    \/ Acknowledge
    \/ DecodeAndRetrieve
    \/ Validate
    \/ Apply
    \/ Reflect
    \/ Notice

SpecCallback == InitCallback /\ [][NextCallback]_vars

(***************************************************************************)
(* The chat message handlers: a message update is given to the first       *)
(* registered handler that accepts it (startup_event), start_command or    *)
(* handle_message.                                                         *)
(***************************************************************************)
RECURSIVE RemoveAll(_, _)
\* s.replace(pat, '')
RemoveAll(s, pat) ==
    IF s = <<>> THEN <<>>
    ELSE IF StartsWith(s, pat) THEN RemoveAll(SubSeq(s, Len(pat) + 1, Len(s)), pat)
    ELSE <<Head(s)>> \o RemoveAll(Tail(s), pat)

StatusCommand == <<"/", "s", "t", "a", "t", "u", "s", " ">>
StartCommand == <<"/", "s", "t", "a", "r", "t">>

\* the name of the command a message starts with
CommandName(text) ==
    LET sp == IndexFrom(text, " ", 1)
    IN  SubSeq(text, 2, IF sp = 0 THEN Len(text) ELSE sp - 1)

\* the handler a text message goes to: CommandHandler("start", start_command),
\* then MessageHandler(filters.TEXT & ~filters.COMMAND, handle_message);
\* command says whether the message starts with a bot command
Route(text, command) ==
    IF command /\ CommandName(text) = SubSeq(StartCommand, 2, Len(StartCommand))
    THEN "start_command"
    ELSE IF ~command /\ text # <<>> THEN "handle_message"
    ELSE "none"

\* the keyboard of handle_message: one button in a row for every status, the
\* identifier not truncated
StatusKeyboard(page_id, status_options) ==
    [r \in 1..Len(status_options) |->
        <<[text |-> status_options[r],
           callback_data |-> FullCallback(page_id, status_options[r])]>>]

\* handle_message up to its reply: the calls to the document store it makes,
\* the reply it gives and the keyboard of the reply
handle_message(message_text, store, notionSet, pageOk, dbOk) ==
    LET text == Strip(message_text)
        page_id == Strip(RemoveAll(text, StatusCommand))
        found == pageOk /\ page_id = store.page.id
        reaches_db == /\ found
                      /\ store.page.statusProp # NoProp
                      /\ store.page.parentType = "database_id"
        status_options == get_page_status_options(store.page, store.db, found, dbOk)
    IN  IF ~StartsWith(text, StatusCommand)
        THEN [calls |-> <<>>, reply |-> "use_status_command", reply_markup |-> <<>>]
        ELSE IF ~(Truthy(page_id) /\ notionSet)
        THEN [calls |-> <<>>, reply |-> "usage", reply_markup |-> <<>>]
        ELSE [calls |-> <<"notion.pages.retrieve">>
                        \o (IF reaches_db THEN <<"notion.databases.retrieve">> ELSE <<>>),
              reply |-> IF status_options # <<>> THEN "choose_status" ELSE "no_statuses",
              reply_markup |-> IF status_options # <<>>
                               THEN StatusKeyboard(page_id, status_options) ELSE <<>>]

Hello == <<"h", "i">>

\* the text messages delivered to the bot, each with the mark the platform puts
\* on a message that starts with a command; the last two are updates made by
\* hand, without the mark
ChatMessages ==
    { [text |-> t, command |-> Head(t) = "/"] :
        t \in {Hello, Fix \o It, StartCommand, StatusCommand \o P1, StatusCommand \o PX,
               SubSeq(StatusCommand, 1, 7), StatusCommand \o P1 \o <<"\t">>} }
    \cup { [text |-> t, command |-> FALSE] :
             t \in {StatusCommand \o P1, StatusCommand \o PX, <<" ">> \o StatusCommand,
                    StatusCommand \o StatusCommand, <<"\t">> \o StatusCommand \o P1,
                    StatusCommand \o P1 \o <<"\r", NL>>,
                    <<"U+00A0">> \o StatusCommand \o P1 \o <<"U+2003">>} }

InitChat ==
    /\ notion \in [page : CallbackPages, db : CallbackDbs]
    /\ clients \in [notion : BOOLEAN, telegram : {TRUE}]
    /\ phase = "idle"
    /\ request = NoRequest
    /\ response = NoResponse
    /\ task = NoTask
    /\ trace = <<>>
    /\ channel = <<>>
    /\ chat = NoChat
    /\ cb = NoCb
    /\ answers = <<>>
    /\ edits = <<>>
    /\ codec = NoCodec
    /\ inbox = NoInbox
    /\ LaterAtRest

\* a text message arrives and is given to the first handler that accepts it
DeliverMessage ==
    /\ inbox.pc = "idle"
    /\ \E m \in ChatMessages :
        LET handler == Route(m.text, m.command)
        IN  inbox' = [inbox EXCEPT !.text = m.text, !.command = m.command,
                                   !.handler = handler,
                                   !.pc = IF handler = "none" THEN "done" ELSE "handling"]
    /\ UNCHANGED <<notion, clients, trace, receiverVars, callbackVars, codecVars, laterVars>>

\* start_command up to its reply
StartCommandRuns ==
    /\ inbox.pc = "handling"
    /\ inbox.handler = "start_command"
    /\ inbox' = [inbox EXCEPT !.pc = "reply", !.pending = "help"]
    /\ UNCHANGED <<notion, clients, trace, receiverVars, callbackVars, codecVars, laterVars>>

\* handle_message up to its reply
HandleMessageRuns ==
    /\ inbox.pc = "handling"
    /\ inbox.handler = "handle_message"
    /\ \E pageOk \in BOOLEAN, dbOk \in BOOLEAN :
        LET r == handle_message(inbox.text, notion, clients.notion, pageOk, dbOk)
        IN  /\ Len(r.calls) >= 1 \/ pageOk
            /\ Len(r.calls) >= 2 \/ dbOk
            /\ trace' = trace \o r.calls
            /\ inbox' = [inbox EXCEPT !.pc = "reply", !.pending = r.reply,
                                      !.reply_markup = r.reply_markup]
    /\ UNCHANGED <<notion, clients, receiverVars, callbackVars, codecVars, laterVars>>

\* await update.message.reply_text(...): when it raises in handle_message, the
\* except clause replies with the error once; start_command only logs
SendReply ==
    /\ inbox.pc = "reply"
    /\ trace' = Append(trace, "telegram.reply_text")
    /\ \E ok \in BOOLEAN :
        inbox' = IF ok
                 THEN [inbox EXCEPT !.pc = "done", !.pending = "none",
                          !.replies = Append(@, [reply |-> inbox.pending,
                                                 reply_markup |-> inbox.reply_markup])]
                 ELSE IF inbox.handler = "handle_message" /\ inbox.pending # "error"
                 THEN [inbox EXCEPT !.pending = "error", !.reply_markup = <<>>]
                 ELSE [inbox EXCEPT !.pc = "done", !.pending = "none"]
    /\ UNCHANGED <<notion, clients, receiverVars, callbackVars, codecVars, laterVars>>

NextChat ==
    \/ DeliverMessage
    \/ StartCommandRuns
    \/ HandleMessageRuns
    \/ SendReply

SpecChat == InitChat /\ [][NextChat]_vars

(***************************************************************************)
(* Properties of the receiver and the dispatcher (Spec).                   *)
(***************************************************************************)
VendorCalls == {"notion.pages.retrieve", "notion.databases.retrieve", "telegram.send_message"}

\* the calls to the document store or the messaging platform in the trace
OutboundCalls == { i \in 1..Len(trace) : trace[i] \in VendorCalls }

Count(seq, x) == Cardinality({ i \in 1..Len(seq) : seq[i] = x })

\* sub occurs in text
Contains(text, sub) ==
    \E i \in 1..(Len(text) + 1 - Len(sub)) : SubSeq(text, i, i + Len(sub) - 1) = sub

IsGet == request.method = "GET"
\* the request is a delivery: a POST on one of the two delivery paths
IsPost == request.method = "POST" /\ request.path \in PostPaths

\* the tokens a GET carries
SentTokens == {request.verification, request.challenge} \ {None}

\* C1 as stated: a GET verification request that carries a verification or a
\* challenge parameter (absent, empty or present in any combination) is answered
\* with a challenge field equal to a token that was sent.
C1_EchoesAnyToken ==
    (IsGet /\ SentTokens # {}) =>
        (response.challenge # None /\ response.challenge \in SentTokens)

\* C1 amended: the challenge field is the first non-empty token, verification
\* before challenge on /notion-webhook and challenge before verification on
\* /webhook/notion; when no parameter is non-empty the answer has no challenge
\* field: an error body, with status 400 on /notion-webhook and 200 on
\* /webhook/notion.
C1_EchoesFirstNonEmptyToken ==
    IsGet =>
        LET first == IF request.path = "/notion-webhook" THEN request.verification
                     ELSE request.challenge
            second == IF request.path = "/notion-webhook" THEN request.challenge
                      ELSE request.verification
        IN  /\ Truthy(first) => response = ChallengeResponse(first)
            /\ (~Truthy(first) /\ Truthy(second)) => response = ChallengeResponse(second)
            /\ (~Truthy(first) /\ ~Truthy(second)) =>
                   /\ response.challenge = None
                   /\ response.status = "error"
                   /\ response.status_code =
                          IF request.path = "/notion-webhook" THEN 400 ELSE 200

C1_Witness ==
    /\ IsGet
    /\ request.path = "/webhook/notion"
    /\ Truthy(request.verification) /\ Truthy(request.challenge)
    /\ request.verification # request.challenge
    /\ response.challenge = request.challenge

\* the event the task was scheduled with is one the dispatcher sends on
TaskIsForPage == process_webhook_event(task.event).do = "page"

\* the valid statuses of the stored page: the options of its database when it has a status property
ValidStatuses ==
    IF notion.page.statusProp # NoProp /\ notion.page.parentType = "database_id"
    THEN notion.db.options ELSE <<>>

\* the title of the stored page: the plain text of all segments of its title
\* array, as _extract_rich_text joins the segments of a rich-text property
PageTitle == Flatten(notion.page.title)

\* the delivery the end-to-end scenario posts: a page.properties_updated event
\* whose entity is the page P1 and whose data is an object (it holds
\* updated_properties, which the dispatcher only logs), with or without the
\* parent database
IsStatusUpdateOfP1 ==
    /\ IsPost
    /\ task.event.type = "page.properties_updated"
    /\ task.event.entity = Entity("page", P1)
    /\ task.event.data = "object"
    /\ task.event.parent \in {NoEntity, Entity("database", DB1)}

\* C2: after a POST of a page.properties_updated event for P1 with both client
\* handles set and every vendor call succeeding, P1 was fetched and exactly one
\* channel message was sent; its text contains P1's title and P1's status, and
\* its keyboard has exactly one button per valid status value of P1, in order,
\* labelled with the value.
C2_EndToEnd ==
    (/\ IsStatusUpdateOfP1
     /\ task.pc = "done"
     /\ clients.notion /\ clients.telegram
     /\ ~task.vendor_failed) =>
        /\ task.result = "True"
        /\ Count(trace, "notion.pages.retrieve") >= 1
        /\ Count(trace, "telegram.send_message") = 1
        /\ Len(channel) = 1
        /\ Contains(channel[1].text, PageTitle)
        /\ notion.page.status # None => Contains(channel[1].text, notion.page.status)
        /\ LET buttons == Flatten(channel[1].reply_markup)
           IN  /\ Len(buttons) = Len(ValidStatuses)
               /\ \A i \in 1..Len(buttons) : buttons[i].text = ValidStatuses[i]

\* C3: an event whose type is not page.created, page.updated or
\* page.properties_updated (a missing type and page.deleted included) makes
\* process_webhook_event return False without any document fetch and without any
\* send-message call, in every delivery of it.
C3_UnhandledTypeIsNoOp ==
    (task.pc # "none" /\ task.event.type \notin HandledTypes) =>
        /\ task.pc \in {"scheduled", "done"}
        /\ task.pc = "done" => task.result = "False"
        /\ OutboundCalls = {}
        /\ channel = <<>>

C3_Witness ==
    /\ task.pc = "done"
    /\ task.event.type = "page.deleted"
    /\ task.event.entity = Entity("page", P1)
    /\ task.result = "False"
    /\ OutboundCalls = {}

\* C7: a POST with a parseable body schedules the processing exactly once and is
\* answered 200; every call to the document store or the messaging platform made
\* for the event comes after the response went out, so the response never waits
\* for one.
C7_AckBeforeOutboundCalls ==
    (IsPost /\ ParseBody(request.body) = "parsed") =>
        /\ Count(trace, "add_task") = 1
        /\ response.status_code = 200
        /\ phase = "returned" => OutboundCalls = {}
        /\ \A i \in OutboundCalls : \E j \in 1..(i - 1) : trace[j] = "http_response"

C7_Witness ==
    /\ IsPost
    /\ Len(trace) >= 3
    /\ trace[1] = "add_task"
    /\ trace[2] = "http_response"
    /\ trace[Len(trace)] = "telegram.send_message"

\* C8 as stated: every POST delivery is answered with the ok acknowledgment.
C8_EveryPostAcknowledged ==
    IsPost => response = OkResponse

\* C8 amended: every POST delivery whose body parses as JSON is answered with the
\* ok acknowledgment, whatever the event's content and whatever the outcome of its
\* processing; a body that does not parse is answered with an error status: 400
\* when the text is not JSON, 500 when the bytes are not UTF-8 or the parser
\* gives up on the text with another exception, and no processing is scheduled
\* for it.
C8_ParsedPostAcknowledged ==
    IsPost =>
        /\ ParseBody(request.body) = "parsed" => response = OkResponse
        /\ ParseBody(request.body) = "JSONDecodeError" => response = HTTPException(400)
        /\ ParseBody(request.body) \notin {"parsed", "JSONDecodeError"}
              => response = HTTPException(500)
        /\ ParseBody(request.body) # "parsed" =>
              /\ task.pc = "none"
              /\ Count(trace, "add_task") = 0

C8_Witness ==
    /\ IsPost
    /\ task.pc = "done"
    /\ task.page_id = P1
    /\ task.vendor_failed
    /\ task.result = "False"
    /\ response = OkResponse

\* C9 as stated: a POST whose body is not a well-formed JSON payload (a body that
\* is not valid UTF-8 included) is answered with a 400-class status and schedules
\* no processing.
C9_MalformedBodyRejected400 ==
    (IsPost /\ ParseBody(request.body) # "parsed") =>
        /\ response.status_code \in 400..499
        /\ task.pc = "none"
        /\ Count(trace, "add_task") = 0

\* C10: for an event of a handled type the dispatcher goes on to fetch the page
\* only if entity.type is "page" and entity.id is non-empty; otherwise (another
\* entity type, a missing or empty id, a missing or null entity) it returns False
\* with no document-store call and no notification.
C10_EntityMustNamePage ==
    LET entity == task.event.entity
        names_page == entity.shape = "object" /\ entity.type = "page" /\ Truthy(entity.id)
    IN  (task.pc # "none" /\ task.event.kind = "object"
         /\ task.event.type \in HandledTypes) =>
            /\ (task.pc \notin {"scheduled", "done"} \/ OutboundCalls # {}) => names_page
            /\ ~names_page =>
                   /\ task.pc = "done" => task.result = "False"
                   /\ OutboundCalls = {}
                   /\ channel = <<>>

C10_Witness ==
    /\ task.pc = "done"
    /\ task.event.type = "page.updated"
    /\ task.event.entity = Entity("database", P1)
    /\ task.result = "False"
    /\ OutboundCalls = {}

(***************************************************************************)
(* Properties of the identifier round trip (SpecCodec).                    *)
(***************************************************************************)
\* C4: when status:<id>:<name> fits within 64 bytes, decoding the identifier the
\* Notifier built recovers exactly <id> and <name>.
C4_RoundTrip ==
    (codec.pc = "decoded"
     /\ ByteLen(FullCallback(codec.page_id, codec.status)) <= CallbackLimit) =>
        /\ codec.decoded.kind = "status"
        /\ codec.decoded.page_id = codec.page_id
        /\ codec.decoded.status_name = codec.status

C4_Witness ==
    /\ codec.pc = "decoded"
    /\ codec.page_id = UuidLike
    /\ ByteLen(FullCallback(codec.page_id, codec.status)) = CallbackLimit
    /\ \E i \in 1..Len(codec.status) : codec.status[i] = ":"
    /\ codec.decoded.status_name = codec.status

(***************************************************************************)
(* Properties of the callback handler (SpecCallback).                      *)
(***************************************************************************)
\* available holds a name equal to name ignoring case
HasCaseMatch(name, available) ==
    \E i \in 1..Len(available) : Lower(available[i]) = Lower(name)

\* the handler has read the valid set and decided on the requested name
Validated == cb.pc \in {"apply", "reflect"} \/ cb.success

\* C5: a requested name that has no exact match in the valid set but matches a
\* valid name ignoring case is resolved to the valid set's spelling, the first
\* such name, and exactly that name is written; an exact match is kept; the
\* request is turned away as unknown only when no name matches either way.
C5_CaseInsensitiveResolution ==
    /\ Validated =>
          /\ cb.status_name \in Names(cb.available)
          /\ Lower(cb.status_name) = Lower(cb.requested)
          /\ cb.requested \in Names(cb.available) => cb.status_name = cb.requested
          /\ cb.status_name = MatchingStatus(cb.requested, cb.available)
             \/ cb.requested \in Names(cb.available)
    /\ cb.written # None =>
          /\ cb.written = cb.status_name
          /\ notion.page.status = cb.written
    /\ \A i \in 1..Len(answers) :
          answers[i].notice = "status_not_found" => ~HasCaseMatch(cb.requested, cb.available)

\* C5 witness: "doing" was asked for, the valid set holds "DOING" before "Doing",
\* and "DOING" was written to the page.
C5_Witness ==
    /\ cb.requested = LowerDoing
    /\ cb.available = <<Todo, UpperDoing, Doing>>
    /\ cb.written = UpperDoing
    /\ notion.page.status = UpperDoing
    /\ "notion.pages.update" \in Names(trace)

\* the notification as it would read with the status line alone replaced
WithStatusLine(status_name) ==
    LET t == format_enhanced_telegram_message([chat.data EXCEPT !.status = status_name],
                                              chat.change_type)
    IN  IF cb.rendered THEN Rendered(t) ELSE t

\* C6: after a successful write, the text passed to the edit is the original
\* message text with only its status line replaced by the new status, whatever
\* the other lines hold.
C6_OnlyStatusLineReplaced ==
    \A i \in 1..Len(edits) :
        Truthy(chat.data.status) => edits[i].text = WithStatusLine(cb.written)

(***************************************************************************)
(* Further properties of the dispatcher (Spec).                            *)
(***************************************************************************)
\* the event is of type deleted, of an unrecognized type, or holds a
\* verification token
MustBeDropped(event) ==
    /\ event.kind = "object"
    /\ \/ event.type \notin HandledTypes
       \/ event.verification_token

\* C11 as stated: an event of type deleted, of an unrecognized type, or holding a
\* verification token is dropped, whatever its other fields are: the dispatcher
\* returns False, fetches no document and sends no notification.
C11_DroppedEventsAreNoOps ==
    (task.pc # "none" /\ MustBeDropped(task.event)) =>
        /\ task.pc \in {"scheduled", "done"}
        /\ task.pc = "done" => task.result = "False"
        /\ OutboundCalls = {}
        /\ channel = <<>>

\* a step of the scheduled task, or the response that lets it start
TaskStep ==
    SendResponse \/ Dispatch \/ FetchPage \/ ExtractAndFormat \/ BuildKeyboard \/ SendMessage

\* C12: process_webhook_event never raises: for every event value (a JSON value
\* that is not an object included), every failure of a document-store or
\* messaging call and every unset client handle, the task can always go on until
\* it ends, it ends with True or False, and it ends with True only if the last
\* thing it did was to send the channel message, successfully.
C12_AlwaysEndsWithBoolean ==
    /\ task.pc \notin {"none", "done"} => ENABLED TaskStep
    /\ task.pc = "done" =>
          /\ task.result \in {"True", "False"}
          /\ task.result = "True" =>
                /\ Len(channel) = 1
                /\ trace # <<>>
                /\ trace[Len(trace)] = "telegram.send_message"
                /\ clients.telegram

\* C12 witness: tasks that ended with False because the event was not an object,
\* because a client handle was unset, or because the send failed.
C12_Witness ==
    /\ task.pc = "done"
    /\ task.result = "False"
    /\ channel = <<>>
    /\ \/ task.event.kind = "list"
       \/ ~clients.notion /\ TaskIsForPage
       \/ /\ trace # <<>>
          /\ trace[Len(trace)] = "telegram.send_message"

\* C14: for a page with n >= 1 valid status values whose notification was sent
\* with every vendor call succeeding, the keyboard has (n + 1) \div 2 rows, every
\* row holds 2 buttons except the last, which holds 1 when n is odd, and the
\* button in row r, column c is labelled with the full name of status 2(r-1)+c.
C14_TwoColumnGrid ==
    (task.pc = "done" /\ Len(channel) = 1 /\ ~task.vendor_failed
     /\ Len(ValidStatuses) >= 1) =>
        LET rows == channel[1].reply_markup
            n == Len(ValidStatuses)
        IN  /\ Len(rows) = (n + 1) \div 2
            /\ \A r \in 1..Len(rows) :
                 /\ Len(rows[r]) = IF r = Len(rows) /\ n % 2 = 1 THEN 1 ELSE 2
                 /\ \A c \in 1..Len(rows[r]) :
                      rows[r][c].text = ValidStatuses[2 * (r - 1) + c]

\* C14 witness: three valid statuses give a first row of two buttons and a last
\* row of one.
C14_Witness ==
    /\ task.pc = "done"
    /\ ~task.vendor_failed
    /\ Len(ValidStatuses) = 3
    /\ Len(channel) = 1
    /\ Len(channel[1].reply_markup) = 2
    /\ Len(channel[1].reply_markup[1]) = 2
    /\ Len(channel[1].reply_markup[2]) = 1
    /\ channel[1].reply_markup[2][1].text = Done

(***************************************************************************)
(* Further properties of the identifier (SpecCodec).                       *)
(***************************************************************************)
\* C13 as stated: every identifier the Notifier builds is at most 64 bytes long in
\* UTF-8, for every page id and every status name, names with multi-byte
\* characters included.
C13_IdentifierFitsLimit ==
    codec.pc \in {"encoded", "decoded"} => ByteLen(codec.data) <= CallbackLimit

(***************************************************************************)
(* Further properties of the callback handler (SpecCallback).              *)
(***************************************************************************)
AnswerCall == "telegram.answer_callback_query"

NotionCalls == {"notion.pages.retrieve", "notion.databases.retrieve", "notion.pages.update"}

\* C15: in a handling of a press with non-empty callback data, the first call
\* made is an answer to the callback query, so it comes before every call to the
\* document store, whether the identifier is valid or not; and whether that
\* answer succeeded or failed, a handling of a status identifier with the Notion
\* client set goes on to retrieve the page.
C15_AnswerBeforeStoreCalls ==
    (Truthy(cb.data) /\ cb.pc # "idle") =>
        /\ \A i \in 1..Len(trace) :
              trace[i] \in NotionCalls => (i > 1 /\ trace[1] = AnswerCall)
        /\ cb.pc \notin {"ack", "notice"} => (trace # <<>> /\ trace[1] = AnswerCall)
        /\ (cb.pc = "done" /\ clients.notion /\ DecodeCallback(cb.data).kind = "status") =>
              Count(trace, "notion.pages.retrieve") >= 1

\* C15 witness: the first answer failed (no plain acknowledgment among the
\* answers) and the handling went on to write the page.
C15_Witness ==
    /\ cb.pc = "done"
    /\ trace[1] = AnswerCall
    /\ \A i \in 1..Len(answers) : answers[i].notice # "ack"
    /\ cb.written = Done
    /\ "notion.pages.update" \in Names(trace)

\* the handling read the valid set and found no name equal to the requested one,
\* exactly or ignoring case
RejectedAtValidation ==
    /\ cb.status_property_name # NoProp
    /\ cb.pc \in {"notice", "done"}
    /\ ~HasCaseMatch(cb.requested, cb.available)

\* the index of the last call to the document store in the trace, 0 if none
LastNotionCall ==
    LET is == { i \in 1..Len(trace) : trace[i] \in NotionCalls }
    IN  IF is = {} THEN 0 ELSE CHOOSE i \in is : \A j \in is : j <= i

\* C16: a page update is made only with a name that is in the valid set fetched
\* in this handling; when the requested name has no exact and no
\* case-insensitive match there (an empty valid set included), the handler
\* answers the query with a notice, makes no page update and no message edit,
\* and fetches nothing again.
C16_WritesOnlyValidatedNames ==
    /\ "notion.pages.update" \in Names(trace) =>
          /\ cb.status_name \in Names(cb.available)
          /\ Lower(cb.status_name) = Lower(cb.requested)
    /\ cb.written # None => cb.written \in Names(cb.available)
    /\ RejectedAtValidation =>
          /\ "notion.pages.update" \notin Names(trace)
          /\ "telegram.edit_message_text" \notin Names(trace)
          /\ edits = <<>>
          /\ cb.written = None
          /\ Count(trace, "notion.pages.retrieve") = 2
          /\ Count(trace, "notion.databases.retrieve") <= 1
          /\ \A i \in 1..Len(answers) :
                answers[i].notice \in {"ack", "status_not_found", "error"}
          /\ cb.pc = "done" =>
                /\ trace[Len(trace)] = AnswerCall
                /\ LastNotionCall < Len(trace)

\* C16 witness: the valid set came back empty, the request was turned away with
\* the alert and nothing was written or edited.
C16_Witness ==
    /\ cb.pc = "done"
    /\ cb.status_property_name # NoProp
    /\ cb.available = <<>>
    /\ cb.requested = Todo
    /\ "notion.pages.update" \notin Names(trace)
    /\ edits = <<>>
    /\ answers # <<>>
    /\ answers[Len(answers)] = [notice |-> "status_not_found", show_alert |-> TRUE]

\* the stages of a handling, read from what it has done so far
Received == cb.requested # None            \* the identifier was split into 3 parts
Acknowledged ==                            \* the plain query.answer() was issued
    /\ Truthy(cb.data) /\ clients.notion
    /\ trace # <<>> /\ trace[1] = AnswerCall
Applied == "notion.pages.update" \in Names(trace) /\ cb.written # None
Reflected == "telegram.edit_message_text" \in Names(trace)

\* the handling failed at the decode or at the validation
Rejected ==
    \/ cb.pc \in {"notice", "done"} /\ cb.requested = None
    \/ RejectedAtValidation

\* what holds of the later stages whatever the order of the first two
LaterStagesInOrder ==
    /\ Validated => Received
    /\ Applied => cb.success
    /\ Reflected => (Applied /\ cb.has_message)
    /\ Rejected =>
          /\ "notion.pages.update" \notin Names(trace)
          /\ ~Reflected
          /\ edits = <<>>

\* C17 as stated: the stages come in the order Received (identifier decoded into
\* 3 parts), Acknowledged, Validated, Applied, Reflected: the acknowledgment of
\* a 3-part identifier is issued only after the identifier was decoded.
C17_DecodedBeforeAcknowledged ==
    /\ (Acknowledged /\ DecodeCallback(cb.data).kind = "status") => Received
    /\ LaterStagesInOrder

\* C17 amended: the acknowledgment comes first; the identifier is decoded into 3
\* parts only after it was issued; then validation, page write and message edit
\* follow in this order, the edit only after a successful write and only when
\* the press carries a message; a successful handling of a press with a message
\* has made the edit, unless the written name does not compile as a replacement
\* template (re.sub raises and the edit is left out); a handling that fails the
\* decode or the validation makes no page write and no message edit.
C17_AcknowledgedThenDecoded ==
    /\ Received => Acknowledged
    /\ LaterStagesInOrder
    /\ \A i, j \in 1..Len(trace) :
          (trace[i] = "telegram.edit_message_text" /\ trace[j] = "notion.pages.update")
              => j < i
    /\ (cb.pc \in {"notice", "done"} /\ cb.success /\ cb.has_message) =>
          (Reflected <=> updated_text_of(cb.message_text, cb.written) # TemplateError)

\* C17 witness: a handling that went through every stage.
C17_Witness ==
    /\ cb.pc = "done"
    /\ cb.success
    /\ Len(edits) = 1
    /\ trace = <<AnswerCall, "notion.pages.retrieve", "notion.pages.retrieve",
                 "notion.databases.retrieve", "notion.pages.retrieve",
                 "notion.pages.update", "telegram.edit_message_text", AnswerCall>>
    /\ answers = <<[notice |-> "ack", show_alert |-> FALSE],
                   [notice |-> "status_changed", show_alert |-> FALSE]>>

\* C18 as stated: a handling in which a step failed (decode, acknowledgment, page
\* retrieve, validation, page write, message edit) never gives a success notice,
\* and when it is over its last call was an answer carrying an error notice.
C18_FailureEndsWithErrorNotice ==
    cb.failed # {} =>
        /\ \A i \in 1..Len(answers) : answers[i].notice # "status_changed"
        /\ cb.pc \in {"notice", "done"} => cb.notice # "status_changed"
        /\ cb.pc = "done" => (trace # <<>> /\ trace[Len(trace)] = AnswerCall)

(***************************************************************************)
(* Properties of the chat message handlers (SpecChat).                     *)
(***************************************************************************)
\* the message is plain text: it does not start with a command
PlainMessage == inbox.pc # "idle" /\ ~inbox.command /\ Head(inbox.text) # "/"

\* C19 as stated: a plain chat message (text that is not a command) delivered to
\* the bot results in a create-page call to the document store.
C19_PlainMessageCreatesPage ==
    (PlainMessage /\ inbox.pc = "done") => "notion.pages.create" \in Names(trace)

\* the message is /status <page_id> as the platform delivers it
StatusMessage ==
    /\ inbox.pc # "idle"
    /\ inbox.command
    /\ StartsWith(inbox.text, StatusCommand)
    /\ Len(inbox.text) > Len(StatusCommand)

\* C20 as stated: a chat message /status <page_id> is handled: one of the
\* registered handlers takes it and the user is sent a reply (the buttons or the
\* explanation of the failure).
C20_StatusCommandIsAnswered ==
    (StatusMessage /\ inbox.pc = "done") =>
        /\ "telegram.reply_text" \in Names(trace)
        /\ inbox.handler # "none"

(***************************************************************************)
(* C21: the stages of _process_page_event and what a failure of each does. *)
(***************************************************************************)
\* the page fetch of the ended dispatch failed: get_page_data gave None
FetchFailed == task.pc = "done" /\ task.page_id # None /\ task.page_data = NoPage

\* the field extraction of the dispatch failed: extract_all_fields gave {}
ExtractionFailed == task.page_data # NoPage /\ task.page_data.executor = Unreadable

\* C21: a dispatch whose page fetch or field extraction failed sends no channel
\* message and ends with False (the statement of the specification; the
\* formatter has no input that makes it fail after a successful extraction)
C21_FailedStageSendsNothing ==
    (task.pc = "done" /\ (FetchFailed \/ ExtractionFailed))
        => (channel = <<>> /\ task.result = "False")

(***************************************************************************)
(* C22: a press of a button whose identifier was cut to the limit.         *)
(***************************************************************************)
\* the pressed button was built for LongStatus, a valid status of the page, and
\* its identifier holds the cut name
TruncatedPress ==
    /\ clients.notion
    /\ cb.data = CallbackData(P1, LongStatus)
    /\ cb.data # FullCallback(P1, LongStatus)
    /\ notion.page.statusProp # NoProp
    /\ notion.page.parentType = "database_id"
    /\ LongStatus \in Names(notion.db.options)

\* C22: a press of a button whose identifier had its status portion cut, handled
\* to its end with no call failing and the valid names fetched, wrote the status
\* the button was built for (the statement of the specification)
C22_TruncatedPressApplies ==
    (/\ TruncatedPress
     /\ cb.pc = "done"
     /\ LongStatus \in Names(cb.available)
     /\ cb.failed \subseteq {"validation"})
        => (cb.written = LongStatus /\ notion.page.status = LongStatus)

(***************************************************************************)
(* C23: the sends of one dispatch.                                         *)
(***************************************************************************)
\* C23: a dispatch calls send-message at most once; when that one send fails
\* (nothing reached the channel) the dispatch ends with False
C23_SendAttemptedAtMostOnce ==
    /\ Count(trace, "telegram.send_message") <= 1
    /\ Len(channel) <= Count(trace, "telegram.send_message")
    /\ (task.pc = "done" /\ Count(trace, "telegram.send_message") = 1 /\ channel = <<>>)
           => task.result = "False"

\* a dispatch whose one send failed has ended with False
C23_Witness ==
    /\ task.pc = "done"
    /\ Count(trace, "telegram.send_message") = 1
    /\ channel = <<>>
    /\ task.result = "False"

(***************************************************************************)
(* NotionIntegration.update_page_property: one call with a property name   *)
(* and a value on a page of the store.  A page is here a function from     *)
(* its property names to the property's type and value.                    *)
(***************************************************************************)
\* no properties argument: the update was not built
NoUpdateData == [property |-> NoProp, key |-> "none", form |-> "none", content |-> None]

\* an update that writes every property as a select
update_data_for_AlwaysSelect(prop_type, property_name, property_value) ==
    [property |-> property_name, key |-> "select", form |-> "name",
     content |-> property_value]

\* update_data of update_page_property: {name: {key: {"name": value}}} for a
\* status or select, {name: {key: [{"text": {"content": value}}]}} for a title
\* or rich_text, nothing for any other type
update_data_for(prop_type, property_name, property_value) ==
    CASE prop_type = "status" ->
           [property |-> property_name, key |-> "status", form |-> "name",
            content |-> property_value]
      [] prop_type = "select" ->
           [property |-> property_name, key |-> "select", form |-> "name",
            content |-> property_value]
      [] prop_type = "title" ->
           [property |-> property_name, key |-> "title", form |-> "text.content",
            content |-> property_value]
      [] prop_type = "rich_text" ->
           [property |-> property_name, key |-> "rich_text", form |-> "text.content",
            content |-> property_value]
      [] OTHER -> NoUpdateData

\* update_page_property(page_id, property_name, property_value): retrieved and
\* updated say whether pages.retrieve and pages.update answered; every exception
\* is caught and gives False
update_page_property(page, property_name, property_value, retrieved, updated) ==
    IF ~retrieved \/ property_name \notin DOMAIN page
    THEN [result |-> "False", update_data |-> NoUpdateData]
    ELSE LET update_data ==
                 update_data_for(page[property_name].type, property_name, property_value)
         IN  IF update_data = NoUpdateData
             THEN [result |-> "False", update_data |-> NoUpdateData]
             ELSE [result |-> IF updated THEN "True" ELSE "False",
                   update_data |-> update_data]

\* the types of the properties of the pages the call is made on
PropertyTypes ==
    [Status |-> "status", Stage |-> "select", Name |-> "title", Notes |-> "rich_text",
     Tags |-> "multi_select", Due |-> "date"]

UpdatePages ==
    { [n \in names |-> [type |-> PropertyTypes[n], value |-> None]] :
        names \in {DOMAIN PropertyTypes, {"Name", "Tags"}, {"Status", "Due"}} }

UpdateNames == DOMAIN PropertyTypes \cup {"Missing"}
UpdateValues == {Todo, Done, <<>>}

InitUpdate ==
    /\ ReceiverAtRest
    /\ client = NoClient
    /\ chat = NoChat
    /\ cb = NoCb
    /\ answers = <<>>
    /\ edits = <<>>
    /\ codec = NoCodec
    /\ inbox = NoInbox
    /\ loop = NoLoop
    /\ hier = NoHier
    /\ hook = NoHook
    /\ duo = NoDuo
    /\ upd \in { [NoUpd EXCEPT !.page = page, !.before = page, !.property_name = n,
                                !.property_value = v] :
                    page \in UpdatePages, n \in UpdateNames, v \in UpdateValues }

\* the call runs: pages.retrieve, then pages.update when an update was built;
\* the store applies an update that succeeds
UpdatePageProperty ==
    /\ upd.pc = "idle"
    /\ \E retrieved \in BOOLEAN, updated \in BOOLEAN :
        LET out == update_page_property(upd.page, upd.property_name, upd.property_value,
                                        retrieved, updated)
            issued == out.update_data # NoUpdateData
        IN  /\ upd' = [upd EXCEPT
                         !.pc = "done",
                         !.result = out.result,
                         !.updates = IF issued THEN <<out.update_data>> ELSE <<>>,
                         !.page = IF issued /\ updated
                                  THEN [@ EXCEPT ![upd.property_name].value =
                                                     out.update_data.content]
                                  ELSE @]
            /\ trace' = <<"notion.pages.retrieve">>
                          \o (IF issued THEN <<"notion.pages.update">> ELSE <<>>)
    /\ UNCHANGED <<notion, clients, receiverVars, callbackVars, codecVars, chatVars>>
    /\ UNCHANGED <<loop, hier, hook, duo, client>>

NextUpdate == UpdatePageProperty

SpecUpdate == InitUpdate /\ [][NextUpdate]_vars

\* the types update_page_property writes
WritableTypes == {"status", "select", "title", "rich_text"}

\* the named property is on the page and of a type that is written
Writable ==
    /\ upd.property_name \in DOMAIN upd.before
    /\ upd.before[upd.property_name].type \in WritableTypes

\* C24: update_page_property issues pages.update only for a property that is on
\* the page and of type status, select, title or rich_text, with the write shape
\* of that type ({"name": value} under the type's key for status and select, a
\* one-segment text list under the type's key for title and rich_text); for a
\* missing property or any other type it returns False and leaves the page as it
\* was; it returns True only when pages.update succeeded; it always returns a
\* boolean
C24_UpdateOnlyWritableTypes ==
    upd.pc = "done" =>
        /\ upd.result \in {"True", "False"}
        /\ Len(upd.updates) <= 1
        /\ upd.updates # <<>> =>
              /\ Writable
              /\ upd.updates[1].property = upd.property_name
              /\ upd.updates[1].key = upd.before[upd.property_name].type
              /\ upd.updates[1].form =
                    (IF upd.updates[1].key \in {"status", "select"} THEN "name"
                     ELSE "text.content")
              /\ upd.updates[1].content = upd.property_value
        /\ ~Writable => (upd.result = "False" /\ upd.page = upd.before
                         /\ upd.updates = <<>>)
        /\ upd.result = "True" =>
              /\ upd.updates # <<>>
              /\ upd.page[upd.property_name].value = upd.property_value
        /\ upd.result = "False" => upd.page = upd.before

\* a status property was written with the status shape and the call gave True
C24_Witness ==
    /\ upd.pc = "done"
    /\ upd.result = "True"
    /\ upd.property_name = "Status"
    /\ upd.updates = <<[property |-> "Status", key |-> "status", form |-> "name",
                        content |-> Done]>>
    /\ upd.page["Status"].value = Done

(***************************************************************************)
(* C25: a press of a button whose status name holds a colon.               *)
(***************************************************************************)
\* the pressed button was built for "In:QA" and its identifier holds the whole
\* name
ColonPress == clients.notion /\ cb.data = FullCallback(P1, InQA)

\* the press got through the fetch of the page and of its valid names, which
\* hold "In:QA", and through the write
ColonPressServed ==
    /\ ColonPress
    /\ cb.pc = "done"
    /\ InQA \in Names(cb.available)
    /\ cb.failed \cap {"retrieve", "validation", "write"} = {}

\* C25 as stated: for a status name that holds a colon the split does not give
\* the name back, and the press does not apply that status
C25_ColonBreaksDecoding ==
    /\ (ColonPress /\ cb.requested # None) => cb.requested # InQA
    /\ ColonPressServed => notion.page.status # InQA

\* C25, amended: the identifier is split at its first two colons only, so a
\* status name that holds colons is decoded whole, and a press of its button
\* whose calls succeed writes exactly that name to the page
C25_ColonNameDecodedWhole ==
    /\ (ColonPress /\ cb.requested # None) =>
           (cb.requested = InQA /\ cb.page_id = P1)
    /\ ColonPressServed => (cb.written = InQA /\ notion.page.status = InQA)

\* the press of the "In:QA" button has written "In:QA"
C25_Witness ==
    /\ ColonPressServed
    /\ cb.requested = InQA
    /\ cb.written = InQA
    /\ notion.page.status = InQA
    /\ "notion.pages.update" \in Names(trace)

(***************************************************************************)
(* The event loop.  uvicorn serves the application with one event loop;    *)
(* the route handlers and the background tasks are coroutines on it        *)
(* (BackgroundTasks awaits an async function on the loop).  A coroutine    *)
(* gives up the loop only at an await.  process_webhook_event and          *)
(* _process_page_event call the document store without await: the Notion   *)
(* client is the synchronous Client, so the loop is held for as long as    *)
(* the call lasts.  The only await of the dispatch is the send.            *)
(*                                                                         *)
(*   reqs[d]    the kind of delivery d and how far its exchange is         *)
(*   tasks[d]   the background task of POST d                              *)
(*   holder     the task that holds the loop inside a store call, 0 if     *)
(*              none                                                       *)
(*   inflight   the tasks whose send-message call is awaited               *)
(*   accepted   the POSTs in the order they were acknowledged              *)
(*   delivered  the notifications in the order the channel got them        *)
(* Every POST carries a page.properties_updated event for page P1.         *)
(***************************************************************************)
Deliveries == 1..MaxDeliveries

InitLoop ==
    /\ ReceiverAtRest
    /\ client = NoClient
    /\ chat = NoChat
    /\ cb = NoCb
    /\ answers = <<>>
    /\ edits = <<>>
    /\ codec = NoCodec
    /\ inbox = NoInbox
    /\ upd = NoUpd
    /\ hier = NoHier
    /\ hook = NoHook
    /\ duo = NoDuo
    /\ loop = NoLoop

\* the loop is free: no coroutine is inside a blocking call
LoopFree == loop.holder = 0

\* a request reaches the server's socket
Arrive(d) ==
    /\ loop.reqs[d].pc = "none"
    /\ IF d = 1 THEN TRUE ELSE loop.reqs[d - 1].pc # "none"
    /\ \E kind \in {"POST", "GET"} :
        loop' = [loop EXCEPT !.reqs[d] = [kind |-> kind, pc |-> "arrived"]]
    /\ UNCHANGED <<notion, clients, trace, receiverVars, callbackVars, codecVars, chatVars>>
    /\ UNCHANGED <<upd, hier, hook, duo, client>>

\* the loop runs the route handler: notion_webhook_post schedules the
\* background task and answers 200, the verification GET answers
Serve(d) ==
    /\ LoopFree
    /\ loop.reqs[d].pc = "arrived"
    /\ loop' = IF loop.reqs[d].kind = "POST"
               THEN [loop EXCEPT !.reqs[d].pc = "acknowledged",
                                 !.tasks[d].pc = "scheduled",
                                 !.accepted = Append(@, d)]
               ELSE [loop EXCEPT !.reqs[d].pc = "acknowledged"]
    /\ UNCHANGED <<notion, clients, trace, receiverVars, callbackVars, codecVars, chatVars>>
    /\ UNCHANGED <<upd, hier, hook, duo, client>>

\* a dispatch that waits for the dispatches of the same page to end
TaskMayStart_OnePerPage(d) ==
    /\ LoopFree
    /\ loop.tasks[d].pc = "scheduled"
    /\ \A e \in Deliveries : loop.tasks[e].pc \in {"none", "scheduled", "done"}

\* the loop may run the task of d: it is scheduled and the loop is free;
\* nothing looks at the page or at the other tasks
TaskMayStart(d) ==
    /\ LoopFree
    /\ loop.tasks[d].pc = "scheduled"

\* the task runs up to notion_client.get_page_data(page_id), a blocking call
StartTask(d) ==
    /\ TaskMayStart(d)
    /\ loop' = [loop EXCEPT !.tasks[d].pc = "in_store_call", !.holder = d]
    /\ UNCHANGED <<notion, clients, trace, receiverVars, callbackVars, codecVars, chatVars>>
    /\ UNCHANGED <<upd, hier, hook, duo, client>>

\* the store answers (or fails): the task goes on without giving up the loop,
\* through extraction, formatting and the keyboard, up to its await of the
\* send, or ends with False when the page could not be fetched
StoreReturns(d) ==
    /\ loop.holder = d
    /\ loop.tasks[d].pc = "in_store_call"
    /\ \E ok \in BOOLEAN :
        loop' = IF ok
                THEN [loop EXCEPT !.tasks[d].pc = "sending", !.holder = 0,
                                  !.inflight = @ \cup {d}]
                ELSE [loop EXCEPT !.tasks[d] = [pc |-> "done", result |-> "False"],
                                  !.holder = 0]
    /\ UNCHANGED <<notion, clients, trace, receiverVars, callbackVars, codecVars, chatVars>>
    /\ UNCHANGED <<upd, hier, hook, duo, client>>

\* the store call never returns: the task stays inside it
StoreHangs(d) ==
    /\ loop.holder = d
    /\ loop.tasks[d].pc = "in_store_call"
    /\ loop' = [loop EXCEPT !.tasks[d].pc = "stalled"]
    /\ UNCHANGED <<notion, clients, trace, receiverVars, callbackVars, codecVars, chatVars>>
    /\ UNCHANGED <<upd, hier, hook, duo, client>>

\* the platform handles a send that is in flight: the message reaches the
\* channel, or the send fails
PlatformAnswers(d) ==
    /\ d \in loop.inflight
    /\ \E ok \in BOOLEAN :
        loop' = [loop EXCEPT !.inflight = @ \ {d},
                             !.delivered = IF ok THEN Append(@, d) ELSE @,
                             !.tasks[d] = [pc |-> "resuming",
                                           result |-> IF ok THEN "True" ELSE "False"]]
    /\ UNCHANGED <<notion, clients, trace, receiverVars, callbackVars, codecVars, chatVars>>
    /\ UNCHANGED <<upd, hier, hook, duo, client>>

\* the loop resumes the task after its await: return success
Resume(d) ==
    /\ LoopFree
    /\ loop.tasks[d].pc = "resuming"
    /\ loop' = [loop EXCEPT !.tasks[d].pc = "done"]
    /\ UNCHANGED <<notion, clients, trace, receiverVars, callbackVars, codecVars, chatVars>>
    /\ UNCHANGED <<upd, hier, hook, duo, client>>

NextLoop ==
    \E d \in Deliveries :
        \/ Arrive(d)
        \/ Serve(d)
        \/ StartTask(d)
        \/ StoreReturns(d)
        \/ StoreHangs(d)
        \/ PlatformAnswers(d)
        \/ Resume(d)

SpecLoop == InitLoop /\ [][NextLoop]_vars

(***************************************************************************)
(* C26: the receiver while a background task is stalled.                   *)
(***************************************************************************)
\* C26 as stated: while the task of one event is stalled inside a store call
\* that never returns, every request that has arrived can still be served
C26_ReceiverServesWhileStalled ==
    \A d \in Deliveries, e \in Deliveries :
        (loop.tasks[d].pc = "stalled" /\ loop.reqs[e].pc = "arrived") => ENABLED Serve(e)

(***************************************************************************)
(* C27: two events for the same page.                                      *)
(***************************************************************************)
\* C27: nothing keeps the dispatches of one page apart: a scheduled task may
\* start whenever the loop is free, whatever the other tasks are doing, and
\* every dispatch whose send succeeded has put its own notification in the
\* channel, once
C27_NoExclusionBetweenDispatches ==
    \A d \in Deliveries :
        /\ (LoopFree /\ loop.tasks[d].pc = "scheduled") => ENABLED StartTask(d)
        /\ Count(loop.delivered, d) = (IF loop.tasks[d].result = "True" THEN 1 ELSE 0)

\* two events for P1 were accepted one after the other, both were notified, and
\* the channel got the notification of the later one first
C27_Witness ==
    /\ Len(loop.accepted) >= 2
    /\ loop.tasks[loop.accepted[1]] = [pc |-> "done", result |-> "True"]
    /\ loop.tasks[loop.accepted[2]] = [pc |-> "done", result |-> "True"]
    /\ loop.delivered = <<loop.accepted[2], loop.accepted[1]>>

(***************************************************************************)
(* WebhookProcessor.get_hierarchy_components with the parents of the       *)
(* database.  The store holds the database DB1, the pages PA, PB and PC    *)
(* and the block BK as the vendor API returns them: each with the parent   *)
(* reference {type, id}.                                                   *)
(***************************************************************************)
PA == <<"P", "A">>
PB == <<"P", "B">>
PC == <<"P", "C">>
BK == <<"B", "K">>
T1 == <<"T", "1">>
T2 == <<"T", "2">>
T3 == <<"T", "3">>
Proj == <<"P", "r", "o", "j">>

AtWorkspace == [type |-> "workspace", id |-> None]
InPage(id) == [type |-> "page_id", id |-> id]
InBlock(id) == [type |-> "block_id", id |-> id]

\* NotionIntegration._parse_page / get_page_data: the dictionary that is
\* returned holds id, title, status, tags, created_time, url and properties;
\* the parent reference of the page is not among its keys
get_page_data(raw_page) == [id |-> raw_page.id, title |-> raw_page.title]

\* page_data.get('parent', {})
ParentOf(page_data) ==
    IF "parent" \in DOMAIN page_data THEN page_data.parent
    ELSE [type |-> NoField, id |-> None]

\* the title loop of get_hierarchy_components: the first segment of the title
\* property, "No Title" when the array is empty
TitleOf(page_data) == IF page_data.title # <<>> THEN page_data.title[1] ELSE NoTitle

\* the title of the page with this id as get_page_data gives it, '' when the
\* call fails (get_page_data returns None)
TitleOfPage(store, id, ok) ==
    IF ok.page /\ id \in DOMAIN store.pages
    THEN TitleOf(get_page_data(store.pages[id])) ELSE <<>>

\* get_hierarchy_components(page_id, database_id) over the store; ok says which
\* vendor calls answer: the retrieve of get_database_name, the second
\* databases.retrieve, pages.retrieve and blocks.retrieve
hierarchy_components(store, database_id, ok) ==
    IF ~Truthy(database_id) THEN NoHierarchy
    ELSE
    LET db == store.db
        named == [NoHierarchy EXCEPT
                    !.tasks = IF ok.name /\ db.title # <<>> THEN db.title[1]
                              ELSE <<"Unknown Database">>]
    IN  IF ~ok.db THEN named
        ELSE CASE db.parent.type = "page_id" ->
                    IF ~(ok.page /\ db.parent.id \in DOMAIN store.pages) THEN named
                    ELSE LET page_data == get_page_data(store.pages[db.parent.id])
                             parent == ParentOf(page_data)
                         IN  [named EXCEPT
                                !.project = TitleOf(page_data),
                                !.department =
                                    IF parent.type = "page_id"
                                    THEN TitleOfPage(store, parent.id, ok) ELSE <<>>]
               [] db.parent.type = "block_id" ->
                    IF ~ok.block THEN named
                    ELSE LET block_data == store.block
                         IN  [named EXCEPT
                                !.project =
                                    IF block_data.type = "toggle" /\ block_data.text # <<>>
                                    THEN block_data.text[1] ELSE <<>>,
                                !.department =
                                    IF block_data.parent.type = "page_id"
                                    THEN TitleOfPage(store, block_data.parent.id, ok)
                                    ELSE <<>>]
               [] OTHER -> named

\* the ids of the pages and blocks the resolution fetches, in order
hierarchy_fetches(store, database_id, ok) ==
    IF ~Truthy(database_id) \/ ~ok.db THEN <<>>
    ELSE CASE store.db.parent.type = "page_id" ->
                <<store.db.parent.id>>
                \o (IF ok.page /\ store.db.parent.id \in DOMAIN store.pages
                       /\ ParentOf(get_page_data(store.pages[store.db.parent.id])).type
                            = "page_id"
                    THEN <<ParentOf(get_page_data(store.pages[store.db.parent.id])).id>>
                    ELSE <<>>)
           [] store.db.parent.type = "block_id" ->
                <<BK>> \o (IF ok.block /\ store.block.parent.type = "page_id"
                           THEN <<store.block.parent.id>> ELSE <<>>)
           [] OTHER -> <<>>

HierarchyStores ==
    { [db |-> [title |-> dt, parent |-> dp],
       pages |-> (PA :> [id |-> PA, title |-> at, parent |-> ap]
                  @@ PB :> [id |-> PB, title |-> <<T2>>, parent |-> bp]
                  @@ PC :> [id |-> PC, title |-> <<T3>>, parent |-> AtWorkspace]),
       block |-> [type |-> bt, text |-> bx, parent |-> InPage(PA)]] :
        dt \in {<<TasksDb>>, <<>>},
        dp \in {AtWorkspace, InPage(PA), InBlock(BK)},
        at \in {<<T1>>, <<>>},
        ap \in {AtWorkspace, InPage(PB)},
        bp \in {AtWorkspace, InPage(PC)},
        bt \in {"toggle", "paragraph"},
        bx \in {<<Proj>>, <<>>} }

InitHierarchy ==
    /\ ReceiverAtRest
    /\ client = NoClient
    /\ chat = NoChat
    /\ cb = NoCb
    /\ answers = <<>>
    /\ edits = <<>>
    /\ codec = NoCodec
    /\ inbox = NoInbox
    /\ upd = NoUpd
    /\ loop = NoLoop
    /\ hook = NoHook
    /\ duo = NoDuo
    /\ hier \in { [NoHier EXCEPT !.store = st, !.database_id = id] :
                     st \in HierarchyStores, id \in {DB1, None} }

\* extract_all_fields calls get_hierarchy_components(page_id, database_id)
GetHierarchyComponents ==
    /\ hier.pc = "idle"
    /\ \E ok \in [name : BOOLEAN, db : BOOLEAN, page : BOOLEAN, block : BOOLEAN] :
        hier' = [hier EXCEPT
                   !.pc = "done",
                   !.result = hierarchy_components(hier.store, hier.database_id, ok),
                   !.fetched = hierarchy_fetches(hier.store, hier.database_id, ok)]
    /\ UNCHANGED <<notion, clients, trace, receiverVars, callbackVars, codecVars, chatVars>>
    /\ UNCHANGED <<upd, loop, hook, duo, client>>

NextHierarchy == GetHierarchyComponents

SpecHierarchy == InitHierarchy /\ [][NextHierarchy]_vars

(***************************************************************************)
(* C28: the two parent links of the database.                              *)
(***************************************************************************)
\* C28 as stated, for the database whose parent page PA is titled T1 and has
\* the parent page PB titled T2: the fields are the database name, T1 and T2
\* (whenever the project is T1 the resolution has fetched PA)
C28_TwoParentLinksResolved ==
    (/\ hier.pc = "done"
     /\ hier.database_id = DB1
     /\ hier.store.db = [title |-> <<TasksDb>>, parent |-> InPage(PA)]
     /\ hier.store.pages[PA].title = <<T1>>
     /\ hier.store.pages[PA].parent = InPage(PB)
     /\ hier.result.tasks = TasksDb
     /\ hier.result.project = T1)
        => hier.result.department = T2

(***************************************************************************)
(* The Telegram update endpoint (telegram_webhook): one delivery.          *)
(*                                                                         *)
(* A body is empty, bytes that are not UTF-8, text that is not JSON, text  *)
(* that json.loads gives up on with another exception (raises, as for the  *)
(* receiver's bodies), or a JSON value: null, a list, a scalar, or an      *)
(* object with or without the keys update_id, callback_query (null, an     *)
(* object, or an object whose message is null) and message.                *)
(***************************************************************************)
HookBodies ==
    { [empty |-> TRUE, utf8 |-> TRUE, json |-> FALSE, raises |-> "none", kind |-> "none",
       update_id |-> FALSE, callback_query |-> "missing", message |-> "missing"],
      [empty |-> FALSE, utf8 |-> FALSE, json |-> FALSE, raises |-> "none", kind |-> "none",
       update_id |-> FALSE, callback_query |-> "missing", message |-> "missing"] }
    \cup { [empty |-> FALSE, utf8 |-> TRUE, json |-> FALSE, raises |-> e, kind |-> "none",
            update_id |-> FALSE, callback_query |-> "missing", message |-> "missing"] :
            e \in {"JSONDecodeError"} \cup ParserLimits }
    \cup { [empty |-> FALSE, utf8 |-> TRUE, json |-> TRUE, raises |-> "none", kind |-> k,
            update_id |-> FALSE, callback_query |-> "missing", message |-> "missing"] :
            k \in {"null", "list", "scalar"} }
    \cup { [empty |-> FALSE, utf8 |-> TRUE, json |-> TRUE, raises |-> "none",
            kind |-> "object",
            update_id |-> u, callback_query |-> c, message |-> m] :
            u \in BOOLEAN, c \in {"missing", "object", "null", "null_message"},
            m \in {"missing", "object"} }

\* an endpoint that reports a failed processing
processing_failed_response_500 == ErrorResponse(500)

\* telegram_webhook: the answer of both `except Exception` branches
processing_failed_response == OkResponse

\* telegram_webhook up to Update.de_json: the response when the handler
\* returns before it, NoResponse when it goes on.  The except at the parse
\* takes JSONDecodeError only.  Bytes that are not UTF-8 raise
\* UnicodeDecodeError, json.loads may raise RecursionError or ValueError, a
\* JSON value without .get raises AttributeError, and so does a callback_query
\* that is null or whose message is null: all end in the outer except
telegram_webhook_reads(app, body) ==
    IF ~app THEN ErrorResponse(503)
    ELSE IF body.empty THEN OkResponse
    ELSE IF ~body.utf8 THEN processing_failed_response
    ELSE IF ~body.json
    THEN (IF body.raises = "JSONDecodeError" THEN ErrorResponse(400)
          ELSE processing_failed_response)
    ELSE IF body.kind # "object" THEN processing_failed_response
    ELSE IF body.callback_query \in {"null", "null_message"}
    THEN processing_failed_response
    ELSE NoResponse

InitHook ==
    /\ ReceiverAtRest
    /\ client = NoClient
    /\ chat = NoChat
    /\ cb = NoCb
    /\ answers = <<>>
    /\ edits = <<>>
    /\ codec = NoCodec
    /\ inbox = NoInbox
    /\ upd = NoUpd
    /\ loop = NoLoop
    /\ hier = NoHier
    /\ duo = NoDuo
    /\ hook \in { [NoHook EXCEPT !.app = app, !.body = body] :
                     app \in BOOLEAN, body \in HookBodies }

\* the delivery is read and the Update is built: Update.de_json gives an
\* update, gives None or raises
TelegramWebhookReads ==
    /\ hook.pc = "idle"
    /\ LET early == telegram_webhook_reads(hook.app, hook.body)
       IN  IF early # NoResponse
           THEN hook' = [hook EXCEPT !.pc = "done", !.response = early]
           ELSE \E built \in {"update", "None", "raised"} :
                hook' = CASE built = "update" ->
                               [hook EXCEPT !.pc = "process", !.built = built]
                          [] built = "None" ->
                               [hook EXCEPT !.pc = "done", !.built = built,
                                            !.response = OkResponse]
                          [] OTHER ->
                               [hook EXCEPT !.pc = "done", !.built = built,
                                            !.response = processing_failed_response]
    /\ UNCHANGED <<notion, clients, trace, receiverVars, callbackVars, codecVars, chatVars>>
    /\ UNCHANGED <<upd, loop, hier, duo, client>>

\* await telegram_app.process_update(update): it returns or raises
TelegramWebhookProcesses ==
    /\ hook.pc = "process"
    /\ \E processed \in {"ok", "raised"} :
        hook' = [hook EXCEPT !.pc = "done", !.processed = processed,
                             !.response = IF processed = "ok" THEN OkResponse
                                          ELSE processing_failed_response]
    /\ UNCHANGED <<notion, clients, trace, receiverVars, callbackVars, codecVars, chatVars>>
    /\ UNCHANGED <<upd, loop, hier, duo, client>>

NextHook == TelegramWebhookReads \/ TelegramWebhookProcesses

SpecHook == InitHook /\ [][NextHook]_vars

(***************************************************************************)
(* C29: the answers of the Telegram update endpoint.                       *)
(***************************************************************************)
\* C29: once the bot application exists, a delivery whose body is empty or
\* parses as JSON is answered 200 ok, also when building or processing the
\* Update raised; an answer other than 200 is 503, given exactly when the
\* application does not exist, or 400, given only for a body that is not JSON
C29_AlwaysOkOnceInitialized ==
    hook.pc = "done" =>
        /\ hook.response.status_code \in {200, 400, 503}
        /\ (hook.app /\ (hook.body.empty \/ (hook.body.utf8 /\ hook.body.json)))
              => hook.response = OkResponse
        /\ hook.response.status_code = 503 <=> ~hook.app
        /\ hook.response.status_code = 400 =>
              (hook.app /\ ~hook.body.empty /\ ~hook.body.json
                        /\ hook.body.raises = "JSONDecodeError")

\* an update whose processing raised was answered 200 ok
C29_Witness ==
    /\ hook.pc = "done"
    /\ hook.app
    /\ hook.body.kind = "object"
    /\ hook.body.callback_query = "object"
    /\ hook.processed = "raised"
    /\ hook.response = OkResponse

(***************************************************************************)
(* Two presses on one notification.  The platform delivers each press as   *)
(* an update of its own and the handlers run as coroutines on the event    *)
(* loop: handle_callback gives up the loop at its awaits (query.answer,    *)
(* query.edit_message_text), and the calls to the document store between   *)
(* the first answer and the edit run without a break.                      *)
(*                                                                         *)
(*   page     page P1 of the store                                         *)
(*   message  the text of the notification as the channel holds it        *)
(*   h[i]     the handling of press i: the status of its button, the text  *)
(*            of the message as the press carried it, the text it edits in *)
(*   pending  the handlings whose edit is awaited                          *)
(***************************************************************************)
DuoPage ==
    [id |-> P1, title |-> <<Fix>>, statusProp |-> "Status", status |-> Todo,
     parentType |-> "database_id", description |-> <<>>, executor |-> Bob, url |-> Url]

DuoDb == [title |-> <<TasksDb>>, options |-> <<Todo, Doing, Done>>]

InitDuo ==
    /\ ReceiverAtRest
    /\ client = NoClient
    /\ chat = NoChat
    /\ cb = NoCb
    /\ answers = <<>>
    /\ edits = <<>>
    /\ codec = NoCodec
    /\ inbox = NoInbox
    /\ upd = NoUpd
    /\ loop = NoLoop
    /\ hier = NoHier
    /\ hook = NoHook
    /\ \E first \in Names(DuoDb.options), second \in Names(DuoDb.options) :
        /\ first # second
        /\ duo = [NoDuo EXCEPT !.page = DuoPage,
                               !.message = NotificationFor(DuoPage, DuoDb).text,
                               !.h[1].status_name = first,
                               !.h[2].status_name = second]

\* press i is delivered with the message as the channel holds it now, as sent
\* or as the platform shows it; the handler runs up to its first answer
PressButton(i) ==
    /\ duo.h[i].pc = "none"
    /\ \E form \in {"sent", "rendered"} :
        duo' = [duo EXCEPT !.h[i].pc = "ack", !.h[i].form = form,
                           !.h[i].message_text = IF form = "sent" THEN duo.message
                                                 ELSE Rendered(duo.message)]
    /\ UNCHANGED <<notion, clients, trace, receiverVars, callbackVars, codecVars, chatVars>>
    /\ UNCHANGED <<upd, loop, hier, hook, client>>

\* the first answer is over: the handler validates the name, calls
\* update_page_property and, when that gave True, builds the text and starts
\* the edit (no edit when re.sub raises)
WriteStatus(i) ==
    /\ duo.h[i].pc = "ack"
    /\ \E success \in BOOLEAN :
        LET status_name == ResolveStatus(duo.h[i].status_name, DuoDb.options)
            updated_text == updated_text_of(duo.h[i].message_text, status_name)
        IN  duo' = IF ~success THEN [duo EXCEPT !.h[i].pc = "notice"]
                   ELSE IF updated_text = TemplateError
                   THEN [duo EXCEPT !.page.status = status_name,
                                    !.h[i].pc = "notice",
                                    !.h[i].written = TRUE]
                   ELSE [duo EXCEPT !.page.status = status_name,
                                    !.pending = @ \cup {i},
                                    !.h[i].pc = "editing",
                                    !.h[i].written = TRUE,
                                    !.h[i].updated_text = updated_text]
    /\ UNCHANGED <<notion, clients, trace, receiverVars, callbackVars, codecVars, chatVars>>
    /\ UNCHANGED <<upd, loop, hier, hook, client>>

\* the platform handles an edit that is awaited: the message takes the text, or
\* the edit fails
PlatformEdits(i) ==
    /\ i \in duo.pending
    /\ \E ok \in BOOLEAN :
        duo' = [duo EXCEPT !.pending = @ \ {i},
                           !.message = IF ok THEN duo.h[i].updated_text ELSE @,
                           !.h[i].edited = ok,
                           !.h[i].pc = "notice"]
    /\ UNCHANGED <<notion, clients, trace, receiverVars, callbackVars, codecVars, chatVars>>
    /\ UNCHANGED <<upd, loop, hier, hook, client>>

\* the handler answers the query with its notice and ends
FinishPress(i) ==
    /\ duo.h[i].pc = "notice"
    /\ duo' = [duo EXCEPT !.h[i].pc = "done"]
    /\ UNCHANGED <<notion, clients, trace, receiverVars, callbackVars, codecVars, chatVars>>
    /\ UNCHANGED <<upd, loop, hier, hook, client>>

NextDuo ==
    \E i \in 1..2 :
        \/ PressButton(i)
        \/ WriteStatus(i)
        \/ PlatformEdits(i)
        \/ FinishPress(i)

SpecDuo == InitDuo /\ [][NextDuo]_vars

(***************************************************************************)
(* C30: the status line after two presses.                                 *)
(***************************************************************************)
\* both presses were handled to their end, each carried the text as it was
\* sent, wrote its status to the page and had its edit applied
BothPressesServed ==
    \A i \in 1..2 :
        /\ duo.h[i].pc = "done"
        /\ duo.h[i].form = "sent"
        /\ duo.h[i].written
        /\ duo.h[i].edited

\* C30 as stated: after two presses for different statuses were both handled to
\* their end, the status line of the message reads the status of the page
C30_StatusLineMatchesPage ==
    BothPressesServed =>
        Contains(duo.message, <<StatusMark>> \o duo.page.status \o <<NL>>)

(***************************************************************************)
(* The channel client (TelegramIntegration) called on its own: an item of  *)
(* the document store is formatted as a post and sent to the channel.      *)
(* No handler of the server calls send_notion_item, send_multiple_items or *)
(* test_connection; they are followed here as a caller of the class would  *)
(* run them.                                                               *)
(*                                                                         *)
(* An item is a record of its keys title, status, tags, url and            *)
(* created_time; a key the dict does not hold is Missing, a value is a     *)
(* text or None, the tags a sequence of texts.                             *)
(*                                                                         *)
(*   client   the call in progress: pc is "idle", "loop" (the head of the  *)
(*            loop of send_multiple_items), "awaiting_send" (suspended in  *)
(*            await bot.send_message), "sleeping" (in await asyncio.sleep),*)
(*            "awaiting_get_me" or "returned"; items and i are the list    *)
(*            and the item at hand, trace the calls made, channel the      *)
(*            posts in the channel, returned the value given back          *)
(***************************************************************************)
\* item.get(key, default)
Get(item, key, default) == IF item[key] = Missing THEN default ELSE item[key]

RECURSIVE Replace(_, _, _)
\* text.replace(char, by) for one character char
Replace(text, char, by) ==
    IF text = <<>> THEN <<>>
    ELSE (IF Head(text) = char THEN by ELSE <<Head(text)>>) \o Replace(Tail(text), char, by)

\* escape_chars of _escape_markdown, in the order of the list
EscapeChars ==
    <<"_", "*", "[", "]", "(", ")", "~", "U+0060", ">", "#", "+", "-", "=", "|",
      "{", "}", ".", "!">>

RECURSIVE EscapeEach(_, _)
\* the loop of _escape_markdown: one replace for each character of the list
EscapeEach(text, chars) ==
    IF chars = <<>> THEN text
    ELSE EscapeEach(Replace(text, Head(chars), <<"\\", Head(chars)>>), Tail(chars))

\* _escape_markdown(text)
_escape_markdown(text) == IF ~Truthy(text) THEN <<>> ELSE EscapeEach(text, EscapeChars)

\* status_emojis of _get_status_emoji; each emoji is one symbol
status_emojis ==
    << <<<<"n", "o", "t", " ", "s", "t", "a", "r", "t", "e", "d">>, "(hourglass)">>,
       <<<<"i", "n", " ", "p", "r", "o", "g", "r", "e", "s", "s">>, "(arrows)">>,
       <<<<"c", "o", "m", "p", "l", "e", "t", "e", "d">>, "(check)">>,
       <<<<"c", "a", "n", "c", "e", "l", "l", "e", "d">>, "(cross)">>,
       <<<<"o", "n", " ", "h", "o", "l", "d">>, "(pause)">>,
       <<<<"r", "e", "v", "i", "e", "w">>, "(eyes)">>,
       <<<<"p", "u", "b", "l", "i", "s", "h", "e", "d">>, "(rocket)">>,
       <<<<"d", "r", "a", "f", "t">>, "(memo)">> >>

\* _get_status_emoji(status): status_emojis.get(status.lower(), the pin)
_get_status_emoji(status) ==
    LET known == { k \in 1..Len(status_emojis) : status_emojis[k][1] = Lower(status) }
    IN  IF known = {} THEN "(pin)" ELSE status_emojis[CHOOSE k \in known : TRUE][2]

(***************************************************************************)
(* datetime.fromisoformat as the interpreter (CPython 3.11) runs it for    *)
(* _format_date.  The parser reads the UTF-8 bytes of the string, which    *)
(* end with a zero byte.                                                   *)
(***************************************************************************)
RECURSIVE Utf8Bytes(_)
\* s.encode('utf-8') as far as the parser tells the bytes apart: an ASCII
\* character is itself, a longer one is its lead byte and its continuation
\* bytes
Utf8Bytes(s) ==
    IF s = <<>> THEN <<>>
    ELSE (CASE Utf8Len(Head(s)) = 1 -> <<Head(s)>>
            [] Utf8Len(Head(s)) = 2 -> <<"<lead2>", "<cont>">>
            [] OTHER -> <<"<lead3>", "<cont>", "<cont>">>) \o Utf8Bytes(Tail(s))

\* dtstr[i] of the zero-terminated bytes b, i from 0
ByteAt(b, i) == IF i >= 0 /\ i < Len(b) THEN b[i + 1] ELSE Chr(0)

RECURSIVE parse_digits(_, _, _)
\* parse_digits: the number of the n digits from position p, -1 when one of the
\* bytes is no digit
parse_digits(b, p, n) ==
    IF n = 0 THEN 0
    ELSE LET head == parse_digits(b, p, n - 1)
             c == ByteAt(b, p + n - 1)
         IN  IF head < 0 \/ c \notin Digits THEN -1 ELSE head * 10 + DigitVal(c)

\* _find_isoformat_datetime_separator: where the date part ends
_find_isoformat_datetime_separator(b) ==
    LET len == Len(b)
        run == { i \in 7..len : \A j \in 7..(i - 1) : ByteAt(b, j) \in Digits }
        idx == CHOOSE i \in run : (i = len \/ ByteAt(b, i) \notin Digits)
    IN  IF len = 7 THEN 7
        ELSE IF ByteAt(b, 4) = "-"
        THEN (IF ByteAt(b, 5) = "W"
              THEN (IF len < 8 THEN -1
                    ELSE IF len > 8 /\ ByteAt(b, 8) = "-"
                    THEN (IF len = 9 THEN -1
                          ELSE IF len > 10 /\ ByteAt(b, 10) \in Digits THEN 8
                          ELSE 10)
                    ELSE 8)
              ELSE 10)
        ELSE IF ByteAt(b, 4) = "W"
        THEN (IF len < 7 THEN 7
              ELSE IF idx < 9 THEN idx
              ELSE IF idx % 2 = 0 THEN 7
              ELSE 8)
        ELSE 8

\* the calendar of the interpreter
is_leap(year) == year % 4 = 0 /\ (year % 100 # 0 \/ year % 400 = 0)

days_before_month(year, month) ==
    <<0, 31, 59, 90, 120, 151, 181, 212, 243, 273, 304, 334>>[month]
        + (IF month > 2 /\ is_leap(year) THEN 1 ELSE 0)

days_in_month(year, month) ==
    IF month = 2 /\ is_leap(year) THEN 29
    ELSE <<31, 28, 31, 30, 31, 30, 31, 31, 30, 31, 30, 31>>[month]

days_before_year(year) ==
    LET y == year - 1 IN y * 365 + (y \div 4) - (y \div 100) + (y \div 400)

ymd_to_ord(year, month, day) ==
    days_before_year(year) + days_before_month(year, month) + day

\* 0 for a Monday
weekday(year, month, day) == (ymd_to_ord(year, month, day) + 6) % 7

iso_week1_monday(year) ==
    LET first_day == ymd_to_ord(year, 1, 1)
        first_weekday == (first_day + 6) % 7
        week1_monday == first_day - first_weekday
    IN  IF first_weekday > 3 THEN week1_monday + 7 ELSE week1_monday

NoDate == [ok |-> FALSE, year |-> 0, month |-> 0, day |-> 0]

\* ord_to_ymd: the date of the day number ordinal, 1 for 1 January of year 1
ord_to_ymd(ordinal) ==
    LET o == ordinal - 1
        n400 == o \div 146097
        r400 == o % 146097
        n100 == r400 \div 36524
        r100 == r400 % 36524
        n4 == r100 \div 1461
        r4 == r100 % 1461
        n1 == r4 \div 365
        n == r4 % 365
        year == n400 * 400 + 1 + n100 * 100 + n4 * 4 + n1
        leapyear == n1 = 3 /\ (n4 # 24 \/ n100 = 3)
        guess == (n + 50) \div 32
        before == <<0, 31, 59, 90, 120, 151, 181, 212, 243, 273, 304, 334>>[guess]
                      + (IF guess > 2 /\ leapyear THEN 1 ELSE 0)
        month == IF before > n THEN guess - 1 ELSE guess
        preceding == IF before > n THEN before - days_in_month(year, guess - 1)
                     ELSE before
    IN  IF n1 = 4 \/ n100 = 4
        THEN [ok |-> TRUE, year |-> year - 1, month |-> 12, day |-> 31]
        ELSE [ok |-> TRUE, year |-> year, month |-> month, day |-> n - preceding + 1]

\* iso_to_ymd: the date of a day of an ISO week
iso_to_ymd(iso_year, iso_week, iso_day) ==
    LET first_weekday == weekday(iso_year, 1, 1)
        long_year == first_weekday = 3 \/ (first_weekday = 2 /\ is_leap(iso_year))
    IN  IF iso_year < 1 \/ iso_year > 9999 THEN NoDate
        ELSE IF (iso_week <= 0 \/ iso_week >= 53) /\ ~(iso_week = 53 /\ long_year)
        THEN NoDate
        ELSE IF iso_day <= 0 \/ iso_day >= 8 THEN NoDate
        ELSE ord_to_ymd(iso_week1_monday(iso_year) + (iso_week - 1) * 7 + iso_day - 1)

\* parse_isoformat_date: the date of the first len bytes (len is a size_t: a
\* separator position of -1 is beyond every position)
parse_isoformat_date(b, len) ==
    LET year == parse_digits(b, 0, 4)
        uses_separator == ByteAt(b, 4) = "-"
        p == IF uses_separator THEN 5 ELSE 4
        iso_week == parse_digits(b, p + 1, 2)
        w == p + 3
        iso_day == parse_digits(b, IF uses_separator THEN w + 1 ELSE w, 1)
        month == parse_digits(b, p, 2)
        m == p + 2
        day == parse_digits(b, IF uses_separator THEN m + 1 ELSE m, 2)
    IN  IF year < 0 THEN NoDate
        ELSE IF ByteAt(b, p) = "W"
        THEN (IF iso_week < 0 THEN NoDate
              ELSE IF len < 0 \/ w < len
              THEN (IF uses_separator /\ ByteAt(b, w) # "-" THEN NoDate
                    ELSE IF iso_day < 0 THEN NoDate
                    ELSE iso_to_ymd(year, iso_week, iso_day))
              ELSE iso_to_ymd(year, iso_week, 1))
        ELSE IF month < 0 THEN NoDate
        ELSE IF uses_separator /\ ByteAt(b, m) # "-" THEN NoDate
        ELSE IF day < 0 THEN NoDate
        ELSE [ok |-> TRUE, year |-> year, month |-> month, day |-> day]

RECURSIVE SkipDigits(_, _)
\* the first position from p on that holds no digit
SkipDigits(b, p) == IF ByteAt(b, p) \in Digits THEN SkipDigits(b, p + 1) ELSE p

\* parse_hh_mm_ss_ff, the fraction: up to six digits are read, further digits
\* are skipped; 1 when the byte after them is not the end of the string
parse_fraction(b, p_end, p, vals) ==
    LET len_remains == p_end - p
        to_parse == IF len_remains >= 6 THEN 6 ELSE len_remains
    IN  IF parse_digits(b, p, to_parse) < 0 THEN [rv |-> -3, vals |-> vals]
        ELSE [rv |-> IF ByteAt(b, SkipDigits(b, p + to_parse)) # Chr(0) THEN 1 ELSE 0,
              vals |-> vals]

RECURSIVE parse_hh_mm_ss(_, _, _, _, _, _)
\* parse_hh_mm_ss_ff, the loop over hour, minute and second from component i
\* on: p is the read position, vals what is read so far
parse_hh_mm_ss(b, p_end, i, p, has_separator, vals) ==
    LET v == parse_digits(b, p, 2)
        c == ByteAt(b, p + 2)
        q == p + 3
        sep == IF i = 0 THEN c = ":" ELSE has_separator
        read == [vals EXCEPT ![i + 1] = v]
    IN  IF v < 0 THEN [rv |-> -3, vals |-> vals]
        ELSE IF q >= p_end THEN [rv |-> IF c # Chr(0) THEN 1 ELSE 0, vals |-> read]
        ELSE IF sep /\ c = ":"
        THEN (IF i < 2 THEN parse_hh_mm_ss(b, p_end, i + 1, q, sep, read)
              ELSE parse_fraction(b, p_end, q, read))
        ELSE IF c \in {".", ","} THEN parse_fraction(b, p_end, q, read)
        ELSE IF ~sep
        THEN (IF i < 2 THEN parse_hh_mm_ss(b, p_end, i + 1, q - 1, sep, read)
              ELSE parse_fraction(b, p_end, q - 1, read))
        ELSE [rv |-> -4, vals |-> read]

\* parse_hh_mm_ss_ff(tstr, tstr_end): rv 0 at the end of the string, 1 when
\* more follows, negative when the text is no time; vals hour, minute, second
parse_hh_mm_ss_ff(b, tstr, tstr_end) ==
    parse_hh_mm_ss(b, tstr_end, 0, tstr, TRUE, <<0, 0, 0>>)

\* parse_isoformat_time after the time is read: an offset, when one follows,
\* is read up to the end of the string
offset_after(b, time, tzinfo_pos, p_end) ==
    LET tz == parse_hh_mm_ss_ff(b, tzinfo_pos + 1, p_end).vals
        tzsign == IF ByteAt(b, tzinfo_pos) = "-" THEN -1 ELSE 1
    IN  IF time.rv < 0 THEN [rv |-> time.rv, vals |-> time.vals, tzoffset |-> 0]
        ELSE IF tzinfo_pos = p_end
        THEN [rv |-> IF time.rv = 1 THEN -5 ELSE 0, vals |-> time.vals, tzoffset |-> 0]
        ELSE IF ByteAt(b, tzinfo_pos) = "Z"
        THEN [rv |-> IF ByteAt(b, tzinfo_pos + 1) # Chr(0) THEN -5 ELSE 1,
              vals |-> time.vals, tzoffset |-> 0]
        ELSE [rv |-> IF parse_hh_mm_ss_ff(b, tzinfo_pos + 1, p_end).rv # 0 THEN -5 ELSE 1,
              vals |-> time.vals,
              tzoffset |-> tzsign * (tz[1] * 3600 + tz[2] * 60 + tz[3])]

\* the position of the first Z, + or - from p on, the end of the string when
\* there is none
find_tzinfo(b, p) ==
    LET p_end == Len(b)
        marks == { j \in p..(p_end - 1) : ByteAt(b, j) \in {"Z", "+", "-"} }
    IN  IF marks # {} THEN CHOOSE j \in marks : \A k \in marks : j <= k
        ELSE IF p < p_end THEN p_end
        ELSE p + 1

\* parse_isoformat_time: the time from position p on; rv 0 without an offset,
\* 1 with one, negative when the text is no time
parse_isoformat_time(b, p) ==
    offset_after(b, parse_hh_mm_ss_ff(b, p, find_tzinfo(b, p)), find_tzinfo(b, p), Len(b))

NoDateTime == [ok |-> FALSE, year |-> 0, month |-> 0, day |-> 0, hour |-> 0, minute |-> 0]

\* the width of the character that starts with the byte lead
char_width(lead) ==
    IF lead = "<lead3>" THEN 3 ELSE IF lead \in {"<lead2>", "<cont>"} THEN 2 ELSE 1

\* the time of a string whose date ends at separator_location: the separator
\* is one character of any width; midnight when nothing follows the date
time_after(b, separator_location) ==
    IF Len(b) > separator_location
    THEN parse_isoformat_time(b, separator_location
                                    + char_width(ByteAt(b, separator_location)))
    ELSE [rv |-> 0, vals |-> <<0, 0, 0>>, tzoffset |-> 0]

\* the datetime of a parsed date and time: the fields are checked as the
\* constructor checks them, and an offset of a day or more is refused
new_datetime(date, time) ==
    IF ~date.ok \/ time.rv < 0 THEN NoDateTime
    ELSE IF time.rv = 1 /\ (time.tzoffset >= 86400 \/ time.tzoffset <= -86400)
    THEN NoDateTime
    ELSE IF \/ date.year < 1 \/ date.year > 9999
            \/ date.month < 1 \/ date.month > 12
            \/ date.day < 1
    THEN NoDateTime
    ELSE IF \/ date.day > days_in_month(date.year, date.month)
            \/ time.vals[1] > 23 \/ time.vals[2] > 59 \/ time.vals[3] > 59
    THEN NoDateTime
    ELSE [ok |-> TRUE, year |-> date.year, month |-> date.month, day |-> date.day,
          hour |-> time.vals[1], minute |-> time.vals[2]]

\* the datetime of the bytes b whose date ends at separator_location
datetime_of(b, separator_location) ==
    new_datetime(parse_isoformat_date(b, separator_location),
                 time_after(b, separator_location))

\* datetime.fromisoformat(date_string): the fields strftime reads, or NoDateTime
\* when the call raises ValueError
fromisoformat(date_string) ==
    datetime_of(Utf8Bytes(date_string),
                _find_isoformat_datetime_separator(Utf8Bytes(date_string)))

RECURSIVE Decimal(_)
\* the decimal digits of n >= 0
Decimal(n) ==
    IF n < 10 THEN <<Chr(48 + n)>> ELSE Decimal(n \div 10) \o <<Chr(48 + (n % 10))>>

\* a number below 100 with two digits
TwoDigits(n) == <<Chr(48 + (n \div 10)), Chr(48 + (n % 10))>>

\* dt.strftime("%d.%m.%Y %H:%M"); the C library writes the year without
\* leading zeros
strftime(dt) ==
    TwoDigits(dt.day) \o <<".">> \o TwoDigits(dt.month) \o <<".">> \o Decimal(dt.year)
        \o <<" ">> \o TwoDigits(dt.hour) \o <<":">> \o TwoDigits(dt.minute)

\* the date as strftime writes it, the string itself when fromisoformat raised
formatted_or_kept(dt, date_string) == IF dt.ok THEN strftime(dt) ELSE date_string

\* _format_date(date_string): "" for an empty value, the date as day.month.year
\* hour:minute, and the string itself when it is no ISO date
_format_date(date_string) ==
    IF ~Truthy(date_string) THEN <<>>
    ELSE formatted_or_kept(
             fromisoformat(Replace(date_string, "Z", <<"+", "0", "0", ":", "0", "0">>)),
             date_string)

(***************************************************************************)
(* The post of an item.  An emoji and a run of Cyrillic text are one       *)
(* symbol each: (Untitled) is the default title, (Status) the word before  *)
(* the status, (Open in Notion) the text of the link.                      *)
(***************************************************************************)
DefaultTitle == <<"(Untitled)">>

RECURSIVE Join(_, _)
\* sep.join(parts)
Join(parts, sep) ==
    IF parts = <<>> THEN <<>>
    ELSE IF Len(parts) = 1 THEN parts[1]
    ELSE parts[1] \o sep \o Join(Tail(parts), sep)

\* one part of the post that is there only when its value is: the value
\* between open and close
Part(open, value, close) ==
    IF Truthy(value) THEN << open \o value \o close >> ELSE <<>>

\* the part of the status: its emoji, the word and the escaped status
StatusPart(status) ==
    IF Truthy(status)
    THEN << <<_get_status_emoji(status), " ", "(Status)", ":", " ", "_">>
            \o _escape_markdown(status) \o <<"_">> >>
    ELSE <<>>

\* the part of the tags: each tag escaped, after a hash sign
TagsPart(tags) ==
    IF tags # <<>>
    THEN << <<"(label)", " ">>
            \o Join([k \in 1..Len(tags) |-> <<"#">> \o _escape_markdown(tags[k])],
                    <<" ">>) >>
    ELSE <<>>

\* _format_notion_item(item): the title, then the status, the tags, the date
\* and the link, each only when the item has it, with an empty line between
\* two parts
_format_notion_item(item) ==
    Join(<< <<"(memo)", " ", "*">>
             \o _escape_markdown(Get(item, "title", DefaultTitle)) \o <<"*">> >>
         \o StatusPart(Get(item, "status", None))
         \o TagsPart(IF item.tags.kind = "list" THEN item.tags.list ELSE <<>>)
         \o Part(<<"(calendar)", " ">>, _format_date(Get(item, "created_time", <<>>)), <<>>)
         \o Part(<<"(link)", " ", "[", "(Open in Notion)", "]", "(">>,
                 Get(item, "url", <<>>), <<")">>),
         <<NL, NL>>)

\* the post as bot.send_message gets it from send_notion_item: plain text, with
\* the preview of the link
ItemPost(item) ==
    [text |-> _format_notion_item(item), parse_mode |-> "None",
     disable_web_page_preview |-> FALSE]

\* send_notion_item: True when the send returned, False on a TelegramError and
\* on any other exception
send_notion_item_result(outcome) == IF outcome = "ok" THEN "True" ELSE "False"

NoTags == [kind |-> "missing", list |-> <<>>]
NullTags == [kind |-> "none", list |-> <<>>]
Tags(list) == [kind |-> "list", list |-> list]

Draft == <<"D", "r", "a", "f", "t">>
Snake == <<"a", "_", "b">>
Bug == <<"b", "u", "g", "-", "1">>
Ux == <<"U", "X">>
Created == <<"2", "0", "2", "4", "-", "0", "1", "-", "1", "5", "T", "1", "0", ":",
             "3", "0", ":", "0", "0", ".", "0", "0", "0", "Z">>
CreatedWeek == <<"2", "0", "2", "0", "-", "W", "5", "3", "-", "7">>
Soon == <<"s", "o", "o", "n">>

Items ==
    [title : {Missing, None, Fix, Snake},
     status : {Missing, <<>>, Todo, Draft, OnHold},
     tags : {NoTags, NullTags, Tags(<<>>), Tags(<<Bug>>), Tags(<<Bug, Ux>>)},
     url : {Missing, Url},
     created_time : {Missing, None, Created, CreatedWeek, Soon}]

Item(title, status) ==
    [title |-> title, status |-> status, tags |-> NoTags, url |-> Missing,
     created_time |-> Missing]

\* the lists send_multiple_items is called with: none, one or two items
ItemLists ==
    LET some == {Item(Fix, Todo), Item(Snake, Missing)}
    IN  {<<>>} \cup { <<a>> : a \in some } \cup { <<a, b>> : a \in some, b \in some }

InitClient ==
    /\ ReceiverAtRest
    /\ OthersAtRest

\* send_notion_item(item) up to its await: the item is formatted and
\* bot.send_message is called with the post
SendNotionItem ==
    /\ client.pc = "idle"
    /\ \E item \in Items :
        client' = [client EXCEPT !.pc = "awaiting_send",
                                 !.call = "send_notion_item",
                                 !.items = <<item>>,
                                 !.i = 1,
                                 !.trace = <<"telegram.send_message">>]
    /\ UNCHANGED <<notion, clients, trace, receiverVars, callbackVars, codecVars, chatVars>>
    /\ UNCHANGED <<upd, loop, hier, hook, duo>>

\* send_multiple_items(items) is called: sent_count = 0, the loop is at its
\* first item
SendMultipleItems ==
    /\ client.pc = "idle"
    /\ \E items \in ItemLists :
        client' = [client EXCEPT !.pc = "loop",
                                 !.call = "send_multiple_items",
                                 !.items = items,
                                 !.i = 1,
                                 !.sent_count = 0]
    /\ UNCHANGED <<notion, clients, trace, receiverVars, callbackVars, codecVars, chatVars>>
    /\ UNCHANGED <<upd, loop, hier, hook, duo>>

\* a turn of the loop of send_multiple_items begins: send_notion_item formats
\* the item and calls bot.send_message; nothing is counted yet
SendNextItem ==
    /\ client.pc = "loop"
    /\ client.i <= Len(client.items)
    /\ client' = [client EXCEPT !.pc = "awaiting_send",
                                !.trace = Append(@, "telegram.send_message")]
    /\ UNCHANGED <<notion, clients, trace, receiverVars, callbackVars, codecVars, chatVars>>
    /\ UNCHANGED <<upd, loop, hier, hook, duo>>

\* the awaited bot.send_message ends: the post is in the channel when it
\* returned, not when it raised. send_notion_item returns True or False; its
\* caller send_multiple_items counts a True and starts its sleep of a second
BotSendReturns ==
    /\ client.pc = "awaiting_send"
    /\ \E outcome \in {"ok", "TelegramError", "Exception"} :
        LET success == send_notion_item_result(outcome)
            sent == IF outcome = "ok"
                    THEN Append(client.channel, ItemPost(client.items[client.i]))
                    ELSE client.channel
        IN  IF client.call = "send_notion_item"
            THEN client' = [client EXCEPT !.pc = "returned",
                                          !.channel = sent,
                                          !.returned = success]
            ELSE client' = [client EXCEPT !.pc = "sleeping",
                                          !.channel = sent,
                                          !.sent_count = IF success = "True" THEN @ + 1
                                                         ELSE @,
                                          !.trace = Append(@, "asyncio.sleep")]
    /\ UNCHANGED <<notion, clients, trace, receiverVars, callbackVars, codecVars, chatVars>>
    /\ UNCHANGED <<upd, loop, hier, hook, duo>>

\* the awaited asyncio.sleep(1) ends: the loop goes to its next item
SleepEnds ==
    /\ client.pc = "sleeping"
    /\ client' = [client EXCEPT !.pc = "loop", !.i = @ + 1]
    /\ UNCHANGED <<notion, clients, trace, receiverVars, callbackVars, codecVars, chatVars>>
    /\ UNCHANGED <<upd, loop, hier, hook, duo>>

\* send_multiple_items returns sent_count
ReturnSentCount ==
    /\ client.pc = "loop"
    /\ client.i > Len(client.items)
    /\ client' = [client EXCEPT !.pc = "returned", !.returned = "sent_count"]
    /\ UNCHANGED <<notion, clients, trace, receiverVars, callbackVars, codecVars, chatVars>>
    /\ UNCHANGED <<upd, loop, hier, hook, duo>>

\* test_connection up to its await: bot.get_me() is called
TestConnection ==
    /\ client.pc = "idle"
    /\ client' = [client EXCEPT !.pc = "awaiting_get_me",
                                !.call = "test_connection",
                                !.trace = <<"telegram.get_me">>]
    /\ UNCHANGED <<notion, clients, trace, receiverVars, callbackVars, codecVars, chatVars>>
    /\ UNCHANGED <<upd, loop, hier, hook, duo>>

\* the awaited bot.get_me() ends: True when it returned, False when it raised;
\* nothing is sent
GetMeReturns ==
    /\ client.pc = "awaiting_get_me"
    /\ \E outcome \in {"ok", "raised"} :
        client' = [client EXCEPT !.pc = "returned",
                                 !.returned = IF outcome = "ok" THEN "True" ELSE "False"]
    /\ UNCHANGED <<notion, clients, trace, receiverVars, callbackVars, codecVars, chatVars>>
    /\ UNCHANGED <<upd, loop, hier, hook, duo>>

NextClient ==
    \/ SendNotionItem
    \/ SendMultipleItems
    \/ SendNextItem
    \/ BotSendReturns
    \/ SleepEnds
    \/ ReturnSentCount
    \/ TestConnection
    \/ GetMeReturns

SpecClient == InitClient /\ [][NextClient]_vars
====
